---------------------------- MODULE Spec2Model ----------------------------
(***************************************************************************)
(* Model of the OpenTTD WebSocket-to-TCP proxy (web/proxy).                *)
(*                                                                         *)
(*   - one relay session of handleConnection (websocket-proxy.js, the      *)
(*     version with pendingMessages, lines 380-477);                       *)
(*   - the admission handler wss.on('connection') of websocket-proxy.js    *)
(*     (lines 482-514) and of the variant with /invite and /turn           *)
(*     (unnamed/part_002, lines 370-432);                                  *)
(*   - the GET /servers handler with its cache (lines 328-357).            *)
(*                                                                         *)
(* Every event handler of the code is one action.  Variables whose name    *)
(* starts with h_ are history variables: they record what happened, and an *)
(* action reads them only to stay within the bounds of the model.          *)
(***************************************************************************)
EXTENDS Integers, Sequences, FiniteSets, TLC

VARIABLES
    \* ---- relay session (handleConnection) ----
    connected,        \* let connected
    pendingMessages,  \* let pendingMessages
    connectTimeout,   \* the setTimeout handle: "armed", "cleared" or "fired"
    tcpDestroyed,     \* tcpSocket.destroyed
    tcpEvents,        \* 'error' / 'close' events of tcpSocket not yet emitted
    tcpPaused,        \* tcpSocket.pause() in effect
    tcpNeedDrain,     \* a write returned false: tcpSocket will emit 'drain'
    drainListeners,   \* number of tcpSocket.once('drain') listeners registered
    wsState,          \* ws.readyState: "OPEN", "CLOSING" or "CLOSED"
    wsPaused,         \* ws._socket.pause() in effect
    wsBuffered,       \* ws.bufferedAmount
    h_wsReceived,     \* messages delivered by ws 'message', in order
    h_tcpWritten,     \* arguments of tcpSocket.write, in order
    h_tcpData,        \* chunks delivered by tcpSocket 'data', with ws.readyState then
    h_wsSent,         \* arguments of ws.send, in order
    h_wsCloseCalls,   \* codes passed to ws.close by the session, in order
    h_tcpErrored,     \* tcpSocket failed with an error
    h_deadline,       \* the connect deadline destroyed tcpSocket
    h_flushed,        \* number of pendingMessages written by the 'connect' flush
    \* ---- admission (wss.on('connection')) ----
    proxyVariant,     \* which of the two proxy files runs: "main" or "part_002"
    invitePending,    \* upgrades whose handleInviteConnection awaits resolveInviteCode
    h_upgrades,       \* the upgrades handled: url, close code sent, handler started
    h_dials,          \* arguments of net.createConnection made for relay sessions
    h_http,           \* the HTTP requests handled and the response each was given
    \* ---- GET /servers ----
    serverListCache,      \* let serverListCache
    serverListCacheTime,  \* let serverListCacheTime
    clock,                \* Date.now()
    requests,             \* the GET /servers requests and their responses
    h_ticks,              \* number of clock steps taken
    h_stores,             \* number of times the cache was assigned
    h_populatingBody,     \* body of the response that last assigned the cache
    \* ---- one coordinator session (fetchServerList or resolveInviteCode) ----
    gcFlow,           \* the function called: "list" or "resolve"
    inviteCode,       \* the argument of resolveInviteCode, a string
    h_gcWritten,      \* the packet written to socket at 'connect'
    h_gcStream,       \* all bytes 'data' delivered, in order
    gcSocket,         \* socket: "connecting", "open", "ended" or "destroyed"
    gcEvents,         \* 'error' / 'close' events of socket not yet emitted
    gcClosed,         \* socket has emitted 'close'
    gcTimeout,        \* let timeout: "unset", "armed", "cleared" or "fired"
    gcBuffer,         \* let buffer, a sequence of bytes
    gcServers,        \* const servers (list flow)
    newgrfLookup,     \* const newgrfLookup (list flow), index -> name
    gcPromise,        \* the promise: "pending", "resolved" or "rejected"
    gcValue,          \* what the promise was resolved or rejected with
    gcUncaught,       \* a handler threw: the exception is uncaught
    gcSpinning,       \* the packet loop no longer ends
    h_gcDispatched,   \* packets the loop dispatched: type, size field, payload length
    h_gcChunks,       \* number of 'data' events
    \* ---- process ----
    shuttingDown,     \* SIGINT received: httpServer.close() called
    exited,           \* process.exit(0) called
    \* ---- one WebSocket session of part_002, by /invite or /turn ----
    sessHandler,      \* the handler that runs: "none", "handleInviteConnection"
                      \* (awaiting resolveInviteCode), "handleTurnConnection",
                      \* "handleDirectConnection" or "failed" (the catch clause ran)
    sessWs,           \* ws.readyState: "OPEN", "CLOSING" or "CLOSED"
    sessTcp,          \* tcpSocket: "none" (not created), "connecting", "open",
                      \* "destroyed" (by the handler) or "closed" (by the peer)
    turnConnected,    \* let turnConnected
    turnBuffer,       \* let buffer of handleTurnConnection
    turnSpinning,     \* the packet loop no longer ends
    h_turnStream,     \* all bytes tcpSocket 'data' delivered, in order
    h_turnSent,       \* all bytes passed to ws.send, in order
    h_turnWritten,    \* arguments of tcpSocket.write, in order
    h_turnMessages,   \* messages W sent: data, the handler then, the length of
                      \* h_turnStream then, whether a listener heard it
    h_turnCloses,     \* codes passed to ws.close, in order
    h_turnClosedIn,   \* the handler that ran when W closed, "" while it has not
    h_turnChunks      \* number of 'data' events

relayVars == <<connected, pendingMessages, connectTimeout, tcpDestroyed, tcpEvents,
               tcpPaused, tcpNeedDrain, drainListeners, wsState, wsPaused,
               wsBuffered, h_wsReceived, h_tcpWritten, h_tcpData, h_wsSent,
               h_wsCloseCalls, h_tcpErrored, h_deadline, h_flushed>>

gwVars == <<proxyVariant, invitePending, h_upgrades, h_dials, h_http>>

cacheVars == <<serverListCache, serverListCacheTime, clock, requests, h_ticks,
               h_stores, h_populatingBody>>

gcVars == <<gcFlow, inviteCode, h_gcWritten, h_gcStream, gcSocket, gcEvents, gcClosed, gcTimeout, gcBuffer, gcServers,
            newgrfLookup, gcPromise, gcValue, gcUncaught, gcSpinning,
            h_gcDispatched, h_gcChunks>>

sdVars == <<shuttingDown, exited>>

sessVars == <<sessHandler, sessWs, sessTcp, turnConnected, turnBuffer, turnSpinning,
              h_turnStream, h_turnSent, h_turnWritten, h_turnMessages, h_turnCloses,
              h_turnClosedIn, h_turnChunks>>

vars == <<relayVars, gwVars, cacheVars, gcVars, sdVars, sessVars>>

-----------------------------------------------------------------------------
(* Bounds of the model *)

\* number of WebSocket messages a session receives
MaxMsgs == 2
\* number of chunks the TCP socket delivers
MaxChunks == 2
\* number of WebSocket upgrades the proxy handles
MaxUpgrades == 2
\* number of GET /servers requests
MaxRequests == 2
\* number of times the clock advances
MaxTicks == 2
\* Date.now() when the proxy starts
StartClock == 100000
\* number of 'data' events of a coordinator session
MaxGcChunks == 2
\* number of HTTP requests
MaxHttpRequests == 2
\* 'data' events of the TURN or direct socket, and messages of W, in a session
MaxTurnChunks == 2
MaxTurnMsgs == 2

\* payloads of WebSocket messages
Msgs == {"m1", "m2"}
\* chunks read from the TCP socket: a small one and a full 64 KiB read
Chunks == {"c1", "c2"}
ChunkLen(c) == IF c = "c1" THEN 1024 ELSE 65536
\* data.length of a WebSocket message: a small one and a 64 KiB one
MsgLen(m) == IF m = "m1" THEN 1024 ELSE 65536

-----------------------------------------------------------------------------
(* Program constants *)

MAX_WS_BUFFER == 65536
CACHE_TTL == 60000

-----------------------------------------------------------------------------
(* Relay session: handleConnection(ws, targetHost, targetPort) *)

\* State right after handleConnection returned: createConnection called,
\* the connect deadline armed, nothing connected yet, ws OPEN.
RelayInit ==
    /\ connected = FALSE
    /\ pendingMessages = <<>>
    /\ connectTimeout = "armed"
    /\ tcpDestroyed = FALSE
    /\ tcpEvents = <<>>
    /\ tcpPaused = FALSE
    /\ tcpNeedDrain = FALSE
    /\ drainListeners = 0
    /\ wsState = "OPEN"
    /\ wsPaused = FALSE
    /\ wsBuffered = 0
    /\ h_wsReceived = <<>>
    /\ h_tcpWritten = <<>>
    /\ h_tcpData = <<>>
    /\ h_wsSent = <<>>
    /\ h_wsCloseCalls = <<>>
    /\ h_tcpErrored = FALSE
    /\ h_deadline = FALSE
    /\ h_flushed = 0

\* tcpSocket.destroy(): sets destroyed; the first call schedules 'close'.
EventsAfterDestroy == IF tcpDestroyed THEN tcpEvents ELSE Append(tcpEvents, "close")

\* A variant of the guard that only asks that the WebSocket is not CLOSED.
WsIsOpen_NotClosed == wsState # "CLOSED"

\* ws.readyState === ws.OPEN, the guard of every ws.close and ws.send
WsIsOpen == wsState = "OPEN"

\* if (ws.readyState === ws.OPEN) ws.close(code, ...): readyState becomes CLOSING
\* at once and a close frame with the code is sent.
WsStateAfterGuardedClose == IF WsIsOpen THEN "CLOSING" ELSE wsState
CloseCallsAfterGuardedClose(code) ==
    IF WsIsOpen THEN Append(h_wsCloseCalls, code) ELSE h_wsCloseCalls

\* const connectTimeout = setTimeout(() => {...}, 10000)
ConnectTimeoutFires ==
    /\ connectTimeout = "armed"
    /\ connectTimeout' = "fired"
    /\ IF ~connected
         THEN /\ tcpDestroyed' = TRUE
              /\ tcpEvents' = EventsAfterDestroy
              /\ wsState' = WsStateAfterGuardedClose
              /\ h_wsCloseCalls' = CloseCallsAfterGuardedClose(1011)
              /\ h_deadline' = TRUE
         ELSE UNCHANGED <<tcpDestroyed, tcpEvents, wsState, h_wsCloseCalls, h_deadline>>
    /\ UNCHANGED <<connected, pendingMessages, tcpPaused, tcpNeedDrain, drainListeners,
                   wsPaused, wsBuffered, h_wsReceived, h_tcpWritten, h_tcpData,
                   h_wsSent, h_tcpErrored, h_flushed>>
    /\ UNCHANGED <<gwVars, cacheVars, gcVars, sdVars, sessVars>>

\* A variant of 'connect' that forgets clearTimeout(connectTimeout).
TimeoutAfterConnect_NotCleared == connectTimeout

\* tcpSocket.on('connect'): clearTimeout(connectTimeout)
TimeoutAfterConnect == IF connectTimeout = "armed" THEN "cleared" ELSE connectTimeout

\* A variant of the flush that forgets to empty pendingMessages.
PendingAfterFlush_Kept == pendingMessages

\* pendingMessages = [] at the end of the flush
PendingAfterFlush == <<>>

\* tcpSocket.on('connect'): the connection is established; flush pendingMessages.
\* Each write of the flush may return false (its result is ignored).
TcpOnConnect ==
    /\ ~connected
    /\ ~tcpDestroyed
    /\ connectTimeout' = TimeoutAfterConnect
    /\ connected' = TRUE
    /\ h_tcpWritten' = h_tcpWritten \o pendingMessages
    /\ pendingMessages' = PendingAfterFlush
    /\ h_flushed' = Len(pendingMessages)
    /\ \E full \in BOOLEAN :
          tcpNeedDrain' = (tcpNeedDrain \/ (full /\ pendingMessages # <<>>))
    /\ UNCHANGED <<tcpDestroyed, tcpEvents, tcpPaused, drainListeners, wsState,
                   wsPaused, wsBuffered, h_wsReceived, h_tcpData, h_wsSent,
                   h_wsCloseCalls, h_tcpErrored, h_deadline>>
    /\ UNCHANGED <<gwVars, cacheVars, gcVars, sdVars, sessVars>>

\* A variant that drops the chunk when the WebSocket's buffer is full instead
\* of sending it.
DataIsForwarded_DropWhenFull == WsIsOpen /\ wsBuffered < MAX_WS_BUFFER

\* tcpSocket.on('data'): if (ws.readyState === ws.OPEN) ws.send(data)
DataIsForwarded == WsIsOpen

\* tcpSocket.on('data')
TcpOnData ==
    /\ connected
    /\ ~tcpDestroyed
    /\ ~tcpPaused
    /\ Len(h_tcpData) < MaxChunks
    /\ \E c \in Chunks :
          /\ h_tcpData' = Append(h_tcpData, [chunk |-> c, wsOpen |-> (wsState = "OPEN")])
          /\ IF DataIsForwarded
               THEN /\ h_wsSent' = Append(h_wsSent, c)
                    /\ wsBuffered' = wsBuffered + ChunkLen(c)
                    /\ tcpPaused' = IF wsBuffered + ChunkLen(c) > MAX_WS_BUFFER
                                     THEN TRUE ELSE tcpPaused
               ELSE UNCHANGED <<h_wsSent, wsBuffered, tcpPaused>>
    /\ UNCHANGED <<connected, pendingMessages, connectTimeout, tcpDestroyed, tcpEvents,
                   tcpNeedDrain, drainListeners, wsState, wsPaused, h_wsReceived,
                   h_tcpWritten, h_wsCloseCalls, h_tcpErrored, h_deadline, h_flushed>>
    /\ UNCHANGED <<gwVars, cacheVars, gcVars, sdVars, sessVars>>

\* The WebSocket's send buffer is flushed to the network.
WsFlushed ==
    /\ wsBuffered > 0
    /\ wsBuffered' = 0
    /\ UNCHANGED <<connected, pendingMessages, connectTimeout, tcpDestroyed, tcpEvents,
                   tcpPaused, tcpNeedDrain, drainListeners, wsState, wsPaused,
                   h_wsReceived, h_tcpWritten, h_tcpData, h_wsSent, h_wsCloseCalls,
                   h_tcpErrored, h_deadline, h_flushed>>
    /\ UNCHANGED <<gwVars, cacheVars, gcVars, sdVars, sessVars>>

\* ws.on('drain'): the body of the handler.  The WebSocket class of the ws
\* library emits 'open', 'message', 'ping', 'pong', 'close', 'error', 'upgrade',
\* 'redirect' and 'unexpected-response' and never 'drain' (that is an event of
\* net.Socket), so no step of the session runs this handler: it is not one of
\* the steps of RelayNext.
WsOnDrain ==
    /\ wsState # "CLOSED"
    /\ wsBuffered = 0
    /\ tcpPaused
    /\ tcpPaused' = IF ~tcpDestroyed THEN FALSE ELSE tcpPaused
    /\ UNCHANGED <<connected, pendingMessages, connectTimeout, tcpDestroyed, tcpEvents,
                   tcpNeedDrain, drainListeners, wsState, wsPaused, wsBuffered,
                   h_wsReceived, h_tcpWritten, h_tcpData, h_wsSent, h_wsCloseCalls,
                   h_tcpErrored, h_deadline, h_flushed>>
    /\ UNCHANGED <<gwVars, cacheVars, gcVars, sdVars, sessVars>>

\* The TCP connection fails (connect refused, reset, ...): net.Socket destroys
\* itself with the error and emits 'error' and then 'close'.
TcpFails ==
    /\ ~tcpDestroyed
    /\ tcpDestroyed' = TRUE
    /\ tcpEvents' = tcpEvents \o <<"error", "close">>
    /\ h_tcpErrored' = TRUE
    /\ UNCHANGED <<connected, pendingMessages, connectTimeout, tcpPaused, tcpNeedDrain,
                   drainListeners, wsState, wsPaused, wsBuffered, h_wsReceived,
                   h_tcpWritten, h_tcpData, h_wsSent, h_wsCloseCalls, h_deadline, h_flushed>>
    /\ UNCHANGED <<gwVars, cacheVars, gcVars, sdVars, sessVars>>

\* The backend closes the established connection: net.Socket (allowHalfOpen
\* false) ends and destroys itself and emits 'close'.
TcpPeerCloses ==
    /\ connected
    /\ ~tcpDestroyed
    /\ tcpDestroyed' = TRUE
    /\ tcpEvents' = Append(tcpEvents, "close")
    /\ UNCHANGED <<connected, pendingMessages, connectTimeout, tcpPaused, tcpNeedDrain,
                   drainListeners, wsState, wsPaused, wsBuffered, h_wsReceived,
                   h_tcpWritten, h_tcpData, h_wsSent, h_wsCloseCalls, h_tcpErrored,
                   h_deadline, h_flushed>>
    /\ UNCHANGED <<gwVars, cacheVars, gcVars, sdVars, sessVars>>

\* tcpSocket.on('error')
TcpOnError ==
    /\ tcpEvents # <<>>
    /\ Head(tcpEvents) = "error"
    /\ tcpEvents' = Tail(tcpEvents)
    /\ connectTimeout' = IF connectTimeout = "armed" THEN "cleared" ELSE connectTimeout
    /\ wsState' = WsStateAfterGuardedClose
    /\ h_wsCloseCalls' = CloseCallsAfterGuardedClose(1011)
    /\ UNCHANGED <<connected, pendingMessages, tcpDestroyed, tcpPaused, tcpNeedDrain,
                   drainListeners, wsPaused, wsBuffered, h_wsReceived, h_tcpWritten,
                   h_tcpData, h_wsSent, h_tcpErrored, h_deadline, h_flushed>>
    /\ UNCHANGED <<gwVars, cacheVars, gcVars, sdVars, sessVars>>

\* tcpSocket.on('close')
TcpOnClose ==
    /\ tcpEvents # <<>>
    /\ Head(tcpEvents) = "close"
    /\ tcpEvents' = Tail(tcpEvents)
    /\ wsState' = WsStateAfterGuardedClose
    /\ h_wsCloseCalls' = CloseCallsAfterGuardedClose(1000)
    /\ UNCHANGED <<connected, pendingMessages, connectTimeout, tcpDestroyed, tcpPaused,
                   tcpNeedDrain, drainListeners, wsPaused, wsBuffered, h_wsReceived,
                   h_tcpWritten, h_tcpData, h_wsSent, h_tcpErrored, h_deadline, h_flushed>>
    /\ UNCHANGED <<gwVars, cacheVars, gcVars, sdVars, sessVars>>

\* The first version of the handler (lines 169-180 of the same file), which
\* has no pendingMessages: a message that arrives before 'connect' is dropped.
MessageRoute_NoBuffer == IF connected /\ ~tcpDestroyed THEN "write" ELSE "drop"

\* ws.on('message'): where the message goes.
MessageRoute ==
    IF ~connected THEN "buffer"
    ELSE IF ~tcpDestroyed THEN "write"
    ELSE "drop"

\* ws.on('message').  The ws receiver keeps emitting the frames it has already
\* read after ws._socket.pause() and while the closing handshake is running, so
\* the event is possible whenever the WebSocket is not CLOSED.
WsOnMessage ==
    /\ wsState # "CLOSED"
    /\ Len(h_wsReceived) < MaxMsgs
    /\ \E data \in Msgs, canWrite \in BOOLEAN :
          /\ h_wsReceived' = Append(h_wsReceived, data)
          /\ IF MessageRoute = "buffer"
               THEN /\ pendingMessages' = Append(pendingMessages, data)
                    /\ canWrite
                    /\ UNCHANGED <<h_tcpWritten, wsPaused, drainListeners, tcpNeedDrain>>
               ELSE IF MessageRoute = "write"
               THEN /\ h_tcpWritten' = Append(h_tcpWritten, data)
                    /\ IF ~canWrite
                         THEN /\ wsPaused' = TRUE
                              /\ drainListeners' = drainListeners + 1
                              /\ tcpNeedDrain' = TRUE
                         ELSE UNCHANGED <<wsPaused, drainListeners, tcpNeedDrain>>
                    /\ UNCHANGED pendingMessages
               ELSE /\ canWrite
                    /\ UNCHANGED <<pendingMessages, h_tcpWritten, wsPaused,
                                   drainListeners, tcpNeedDrain>>
    /\ UNCHANGED <<connected, connectTimeout, tcpDestroyed, tcpEvents, tcpPaused,
                   wsState, wsBuffered, h_tcpData, h_wsSent, h_wsCloseCalls,
                   h_tcpErrored, h_deadline, h_flushed>>
    /\ UNCHANGED <<gwVars, cacheVars, gcVars, sdVars, sessVars>>

\* tcpSocket emits 'drain': every once('drain') listener runs and is removed.
TcpOnDrain ==
    /\ tcpNeedDrain
    /\ ~tcpDestroyed
    /\ tcpNeedDrain' = FALSE
    /\ drainListeners' = 0
    /\ wsPaused' = IF drainListeners > 0 /\ WsIsOpen THEN FALSE ELSE wsPaused
    /\ UNCHANGED <<connected, pendingMessages, connectTimeout, tcpDestroyed, tcpEvents,
                   tcpPaused, wsState, wsBuffered, h_wsReceived, h_tcpWritten,
                   h_tcpData, h_wsSent, h_wsCloseCalls, h_tcpErrored, h_deadline, h_flushed>>
    /\ UNCHANGED <<gwVars, cacheVars, gcVars, sdVars, sessVars>>

\* A variant whose ws 'close' handler forgets tcpSocket.destroy().
WsCloseDestroys_Forgotten == FALSE

\* ws.on('close'): tcpSocket.destroy()
WsCloseDestroys == TRUE

\* ws.on('close'), the body of the handler
WsOnClose ==
    /\ wsState' = "CLOSED"
    /\ tcpDestroyed' = IF WsCloseDestroys THEN TRUE ELSE tcpDestroyed
    /\ tcpEvents' = IF WsCloseDestroys THEN EventsAfterDestroy ELSE tcpEvents
    /\ UNCHANGED <<connected, pendingMessages, connectTimeout, tcpPaused, tcpNeedDrain,
                   drainListeners, wsPaused, wsBuffered, h_wsReceived, h_tcpWritten,
                   h_tcpData, h_wsSent, h_wsCloseCalls, h_tcpErrored, h_deadline, h_flushed>>
    /\ UNCHANGED <<gwVars, cacheVars, gcVars, sdVars, sessVars>>

\* The client closes the WebSocket, or its connection is lost: 'close' is emitted.
WsClientCloses ==
    /\ wsState = "OPEN"
    /\ WsOnClose

\* A closing WebSocket becomes CLOSED (the peer answers the close frame, or the
\* ws library's close timer destroys the connection): 'close' is emitted.
WsCloseCompletes ==
    /\ wsState = "CLOSING"
    /\ WsOnClose

\* ws.on('error'): the ws library has moved the WebSocket to CLOSING and emits
\* 'error'; the handler destroys tcpSocket.
WsOnError ==
    /\ wsState = "OPEN"
    /\ wsState' = "CLOSING"
    /\ tcpDestroyed' = TRUE
    /\ tcpEvents' = EventsAfterDestroy
    /\ UNCHANGED <<connected, pendingMessages, connectTimeout, tcpPaused, tcpNeedDrain,
                   drainListeners, wsPaused, wsBuffered, h_wsReceived, h_tcpWritten,
                   h_tcpData, h_wsSent, h_wsCloseCalls, h_tcpErrored, h_deadline, h_flushed>>
    /\ UNCHANGED <<gwVars, cacheVars, gcVars, sdVars, sessVars>>

RelayNext ==
    \/ ConnectTimeoutFires
    \/ TcpOnConnect
    \/ TcpOnData
    \/ WsFlushed
    \/ TcpFails
    \/ TcpPeerCloses
    \/ TcpOnError
    \/ TcpOnClose
    \/ WsOnMessage
    \/ TcpOnDrain
    \/ WsClientCloses
    \/ WsCloseCompletes
    \/ WsOnError

-----------------------------------------------------------------------------
(* Claims about the relay session *)

\* C1: while tcpSocket is not destroyed, the messages written to it followed by
\* the messages still held in pendingMessages are exactly the messages received
\* from the WebSocket, in arrival order; once tcpSocket is connected nothing is
\* held back, so the writes are exactly the messages received.
C1_WsToTcpTransparent ==
    ~tcpDestroyed =>
        /\ h_tcpWritten \o pendingMessages = h_wsReceived
        /\ connected => (pendingMessages = <<>> /\ h_tcpWritten = h_wsReceived)

\* C1 witness: a message buffered before 'connect' was flushed and a different
\* one was written directly afterwards.
C1_Witness ==
    /\ connected /\ ~tcpDestroyed
    /\ h_flushed >= 1
    /\ Len(h_tcpWritten) > h_flushed
    /\ h_tcpWritten[1] # h_tcpWritten[Len(h_tcpWritten)]

ChunksWhileOpen ==
    LET s == SelectSeq(h_tcpData, LAMBDA r : r.wsOpen)
    IN  [i \in 1..Len(s) |-> s[i].chunk]

\* C2: the messages sent to the WebSocket are exactly the chunks that 'data'
\* delivered while the WebSocket was OPEN, one message per chunk, in order.
C2_TcpToWsTransparent == h_wsSent = ChunksWhileOpen

\* C2 witness: two different chunks were forwarded, the first of them filling
\* the WebSocket's buffer to MAX_WS_BUFFER.
C2_Witness ==
    /\ Len(h_wsSent) >= 2
    /\ h_wsSent[1] = "c2" /\ h_wsSent[2] = "c1"
    /\ wsState = "OPEN"

BothClosed == wsState = "CLOSED" /\ tcpDestroyed /\ tcpEvents = <<>>

\* C6: once the WebSocket is CLOSED or tcpSocket is destroyed, the session
\* reaches a state where the WebSocket is CLOSED and tcpSocket is destroyed
\* and has emitted 'close'.
C6_NoSocketLeak == (wsState = "CLOSED" \/ tcpDestroyed) ~> BothClosed

\* C6 witness: the backend closed an established connection first, the session
\* closed the WebSocket, and both ends are now closed.
C6_Witness == BothClosed /\ connected /\ h_wsCloseCalls = <<1000>>

\* C7: the session calls ws.close at most once; the code is 1011 exactly when
\* tcpSocket failed with an error or the connect deadline struck, and 1000
\* only when tcpSocket closed without either.
C7_CloseCodeConveysCause ==
    /\ Len(h_wsCloseCalls) <= 1
    /\ \A i \in 1..Len(h_wsCloseCalls) :
          /\ h_wsCloseCalls[i] \in {1000, 1011}
          /\ (h_wsCloseCalls[i] = 1011) <=> (h_tcpErrored \/ h_deadline)
          /\ (h_wsCloseCalls[i] = 1000) => tcpDestroyed

\* C7 witness: 'error' and then 'close' were both emitted and handled, and the
\* one close sent carries 1011.
C7_Witness ==
    /\ h_tcpErrored /\ ~h_deadline
    /\ tcpEvents = <<>>
    /\ h_wsCloseCalls = <<1011>>

\* The state of the session: 0 connecting (tcpSocket not connected, both ends
\* open), 1 open (connected, both ends open), 2 closing (one end closed or
\* closing), 3 closed (both ends closed).
SessionState ==
    IF BothClosed THEN 3
    ELSE IF tcpDestroyed \/ wsState # "OPEN" THEN 2
    ELSE IF connected THEN 1
    ELSE 0

\* C25: the session's state never decreases; a step writes to tcpSocket only
\* when it ends in state open; pendingMessages is flushed only by the step from
\* connecting to open and is empty whenever tcpSocket is connected; and a
\* session whose tcpSocket was destroyed before it connected has written
\* nothing to it.
C25_SessionStateMachine ==
    /\ [][SessionState' >= SessionState]_vars
    /\ [][h_tcpWritten' # h_tcpWritten => SessionState' = 1]_vars
    /\ [][h_flushed' # h_flushed => (SessionState = 0 /\ SessionState' = 1)]_vars
    /\ [](connected => pendingMessages = <<>>)
    /\ []((~connected /\ tcpDestroyed) => h_tcpWritten = <<>>)

\* C25 witness: the session was aborted while connecting with two messages
\* buffered, and has reached closed with nothing written.
C25_Witness ==
    /\ SessionState = 3
    /\ ~connected
    /\ Len(pendingMessages) = 2
    /\ h_tcpWritten = <<>>

\* the connect deadline fires
DeadlineFires == connectTimeout = "armed" /\ connectTimeout' = "fired"

\* the step changes nothing of the session but the timer
SessionUntouched ==
    UNCHANGED <<connected, pendingMessages, tcpDestroyed, tcpEvents, tcpPaused,
                tcpNeedDrain, drainListeners, wsState, wsPaused, wsBuffered,
                h_tcpWritten, h_wsSent, h_wsCloseCalls>>

\* C26: when the connect deadline fires while tcpSocket has not connected and
\* the session has not ended, tcpSocket is destroyed and the WebSocket, if OPEN,
\* is closed with 1011; a connected tcpSocket has its deadline cancelled; and a
\* deadline that fires after the session has ended changes nothing.
C26_DeadlineOnlyWhileConnecting ==
    /\ [][DeadlineFires =>
            IF connected \/ SessionState = 3 THEN SessionUntouched
            ELSE /\ tcpDestroyed'
                 /\ wsState = "OPEN" =>
                       (wsState' = "CLOSING" /\ h_wsCloseCalls' = Append(h_wsCloseCalls, 1011))
                 /\ wsState # "OPEN" => UNCHANGED <<wsState, h_wsCloseCalls>>]_vars
    /\ [](connected => connectTimeout = "cleared")
    /\ [][connected /\ ~DeadlineFires => UNCHANGED connectTimeout]_vars

\* C26 witness: the deadline fired while the session was connecting and closed
\* it with 1011; tcpSocket had not failed.
C26_Witness ==
    /\ connectTimeout = "fired"
    /\ ~connected /\ tcpDestroyed /\ ~h_tcpErrored
    /\ h_wsCloseCalls = <<1011>>

\* C16: while tcpSocket owes a 'drain' (a write of a message from the WebSocket
\* returned false and 'drain' has not been emitted since) and the session is
\* open, reception from the WebSocket is paused; and while reception is paused
\* and the session is open, a once('drain') listener is registered and 'drain'
\* is still to come.
C16_WsBackpressure ==
    (wsState = "OPEN" /\ ~tcpDestroyed) =>
        /\ tcpNeedDrain => wsPaused
        /\ wsPaused => (drainListeners > 0 /\ tcpNeedDrain)

\* C17: the WebSocket's buffered bytes never exceed MAX_WS_BUFFER plus one
\* chunk, tcpSocket is paused only after the buffer exceeded MAX_WS_BUFFER, and a
\* paused tcpSocket whose WebSocket has flushed its buffer is resumed, unless it
\* is destroyed.
C17_TcpBackpressure ==
    /\ [](wsBuffered <= MAX_WS_BUFFER + ChunkLen("c2"))
    /\ [][tcpPaused' /\ ~tcpPaused => wsBuffered' > MAX_WS_BUFFER]_vars
    /\ (tcpPaused /\ wsBuffered = 0) ~> (~tcpPaused \/ tcpDestroyed)

\* The total size in bytes of a sequence of WebSocket messages.
RECURSIVE TotalLength(_)
TotalLength(msgs) ==
    IF msgs = <<>> THEN 0 ELSE MsgLen(Head(msgs)) + TotalLength(Tail(msgs))

\* C18: while tcpSocket is not connected, the messages held in pendingMessages
\* total at most MAX_WS_BUFFER bytes, and the session answers a message that
\* does not fit by closing the WebSocket with 1011 instead of holding it.
C18_PendingBounded ==
    ~connected =>
        /\ TotalLength(pendingMessages) <= MAX_WS_BUFFER
        /\ (TotalLength(h_wsReceived) > MAX_WS_BUFFER /\ ~tcpDestroyed)
              => 1011 \in {h_wsCloseCalls[i] : i \in 1..Len(h_wsCloseCalls)}

-----------------------------------------------------------------------------
(* Strings.  A string is a sequence of one-character strings, so that split, *)
(* parseInt and decodeURIComponent can be computed as the code computes them. *)

S_connect == <<"c","o","n","n","e","c","t">>
S_turn == <<"t","u","r","n">>
S_invite == <<"i","n","v","i","t","e">>
S_servers == <<"s","e","r","v","e","r","s">>

\* "/" + segs[1] + "/" + segs[2] + ...
RECURSIVE Path(_)
Path(segs) ==
    IF segs = <<>> THEN <<>>
    ELSE <<"/">> \o Head(segs) \o Path(Tail(segs))

\* String.prototype.split('/')
RECURSIVE SplitFrom(_, _, _)
SplitFrom(str, cur, acc) ==
    IF str = <<>> THEN Append(acc, cur)
    ELSE IF Head(str) = "/" THEN SplitFrom(Tail(str), <<>>, Append(acc, cur))
    ELSE SplitFrom(Tail(str), Append(cur, Head(str)), acc)

Split(str) == SplitFrom(str, <<>>, <<>>)

\* urlParts.slice(k).join('/'), k counted from 0 as in the code
RECURSIVE Join(_)
Join(segs) ==
    IF segs = <<>> THEN <<>>
    ELSE IF Len(segs) = 1 THEN Head(segs)
    ELSE Head(segs) \o <<"/">> \o Join(Tail(segs))

SliceJoin(parts, k) == Join(SubSeq(parts, k + 1, Len(parts)))

\* decodeURIComponent on the escapes the model's inputs use (%2B, %2F); every
\* other character is copied.
PercentDecoded(hi, lo) ==
    IF hi = "2" /\ lo = "B" THEN "+"
    ELSE IF hi = "2" /\ lo = "F" THEN "/"
    ELSE "?"

RECURSIVE DecodeURIComponent(_)
DecodeURIComponent(str) ==
    IF str = <<>> THEN <<>>
    ELSE IF Head(str) = "%" /\ Len(str) >= 3
         THEN <<PercentDecoded(str[2], str[3])>> \o DecodeURIComponent(SubSeq(str, 4, Len(str)))
    ELSE <<Head(str)>> \o DecodeURIComponent(Tail(str))

DigitValue(c) ==
    CASE c = "0" -> 0 [] c = "1" -> 1 [] c = "2" -> 2 [] c = "3" -> 3
      [] c = "4" -> 4 [] c = "5" -> 5 [] c = "6" -> 6 [] c = "7" -> 7
      [] c = "8" -> 8 [] c = "9" -> 9
      [] c \in {"a", "A"} -> 10 [] c \in {"b", "B"} -> 11 [] c \in {"c", "C"} -> 12
      [] c \in {"d", "D"} -> 13 [] c \in {"e", "E"} -> 14 [] c \in {"f", "F"} -> 15
      [] OTHER -> 99

\* number of leading characters of str that are digits of the radix
RECURSIVE DigitPrefixLen(_, _)
DigitPrefixLen(str, radix) ==
    IF str = <<>> \/ DigitValue(Head(str)) >= radix THEN 0
    ELSE 1 + DigitPrefixLen(Tail(str), radix)

RECURSIVE DigitsValue(_, _, _)
DigitsValue(str, radix, acc) ==
    IF str = <<>> THEN acc
    ELSE DigitsValue(Tail(str), radix, acc * radix + DigitValue(Head(str)))

NaN == [nan |-> TRUE, val |-> 0]

\* parseInt(str) without a radix: an optional sign, an optional 0x prefix that
\* selects radix 16, then the longest run of digits; what follows the digits
\* is ignored; NaN when there is no digit.  (Leading white space, which
\* parseInt skips, cannot occur in a request URL.)
ParseInt(str) ==
    LET signed == str # <<>> /\ Head(str) \in {"+", "-"}
        negative == str # <<>> /\ Head(str) = "-"
        body == IF signed THEN Tail(str) ELSE str
        hex == Len(body) >= 2 /\ body[1] = "0" /\ body[2] \in {"x", "X"}
        radix == IF hex THEN 16 ELSE 10
        digits == IF hex THEN SubSeq(body, 3, Len(body)) ELSE body
        n == DigitPrefixLen(digits, radix)
        v == DigitsValue(SubSeq(digits, 1, n), radix, 0)
    IN  IF n = 0 THEN NaN
        ELSE [nan |-> FALSE, val |-> IF negative THEN 0 - v ELSE v]

-----------------------------------------------------------------------------
(* Admission: wss.on('connection', (ws, req) => ...) *)

\* const ALLOWED_PORTS of websocket-proxy.js
ALLOWED_PORTS ==
    {3973, 3974, 3975, 3976, 3978,
     3979, 3980, 3981, 3982, 3983, 3984, 3985,
     3986, 3987, 3988, 3989,
     2979,
     1742, 1979, 4000, 4001, 4002, 4003, 4004, 4005,
     5010, 5020, 5030, 5040, 5050, 5060, 5070, 5080, 5090, 5100, 5110, 5120, 5130,
     25520, 56111}

\* const ALLOWED_PORTS of the variant with /invite and /turn
ALLOWED_PORTS_part_002 ==
    {3973, 3974, 3975, 3976, 3978,
     3979, 3980, 3981, 3982, 3983, 3984, 3985,
     3986, 3987, 3988, 3989,
     1742, 1979, 4000, 4003,
     5010, 5020, 5030, 5040, 5050, 5060, 5070, 5080, 5090, 5100, 5110, 5120,
     25520,
     56111}

\* const ALLOWED_SERVERS = [] in both files
ALLOWED_SERVERS == {}

\* Hosts, port texts, tickets and invite codes of the requests the model sends.
H_a == <<"a">>
H_b == <<"b">>
P_3979 == <<"3","9","7","9">>
P_22 == <<"2","2">>
P_3980 == <<"3","9","8","0">>
P_abc == <<"a","b","c">>
P_3979abc == <<"3","9","7","9","a","b","c">>
P_0xF8B == <<"0","x","F","8","B">>
T_t == <<"t">>
I_code == <<"%","2","B","A","B">>

Urls ==
    { Path(<<S_connect, H_a, P_3979>>),
      Path(<<S_connect, H_b, P_22>>),
      Path(<<S_connect, H_a, P_3980>>),
      Path(<<S_connect, <<>>, P_3979>>),
      Path(<<S_connect, H_a, P_abc>>),
      Path(<<S_connect, H_a, <<>>>>),
      Path(<<S_connect, H_a>>),
      Path(<<S_servers, H_a, P_3979>>),
      Path(<<S_connect, H_a, P_3979abc>>),
      Path(<<S_connect, H_a, P_0xF8B>>),
      Path(<<S_connect, H_a, P_3979, T_t>>),
      Path(<<S_turn, H_b, P_22, T_t>>),
      Path(<<S_turn, H_a, P_3979, <<>>>>),
      Path(<<S_invite, I_code>>),
      Path(<<S_invite, <<>>>>) }

\* What resolveInviteCode can resolve with: {hostname, port, type: 'direct'}
\* or {hostname, port, type: 'turn', ticket}.
ResolveResults ==
    { [hostname |-> H_a, port |-> 3979, type |-> "direct", ticket |-> <<>>],
      [hostname |-> H_b, port |-> 22, type |-> "direct", ticket |-> <<>>],
      [hostname |-> H_b, port |-> 22, type |-> "turn", ticket |-> T_t] }

Rejected == [code |-> 1008, handler |-> "none", host |-> <<>>, port |-> 0]

\* The /connect/<host>/<port> branch, the same in both files but for the
\* ALLOWED_PORTS it reads and the handler it starts.
ConnectBranch(urlParts, allowedPorts, handler) ==
    IF Len(urlParts) < 4 \/ urlParts[2] # S_connect THEN Rejected
    ELSE LET targetHost == urlParts[3]
             targetPort == ParseInt(urlParts[4])
         IN  IF targetHost = <<>> \/ targetPort.nan THEN Rejected
             ELSE IF targetPort.val \notin allowedPorts THEN Rejected
             ELSE IF Cardinality(ALLOWED_SERVERS) > 0 /\ targetHost \notin ALLOWED_SERVERS
                  THEN Rejected
             ELSE [code |-> 0, handler |-> handler, host |-> targetHost,
                   port |-> targetPort.val]

\* wss.on('connection') of websocket-proxy.js: the handler's decision
Admission(url) == ConnectBranch(Split(url), ALLOWED_PORTS, "handleConnection")

\* wss.on('connection') of the variant with /invite and /turn
Admission_part_002(url) ==
    LET urlParts == Split(url)
    IN  IF Len(urlParts) >= 3 /\ urlParts[2] = S_invite
          THEN IF DecodeURIComponent(SliceJoin(urlParts, 2)) = <<>>
                 THEN Rejected
                 ELSE [code |-> 0, handler |-> "handleInviteConnection",
                       host |-> <<>>, port |-> 0]
        ELSE IF Len(urlParts) >= 5 /\ urlParts[2] = S_turn
          THEN LET turnHost == urlParts[3]
                   turnPort == ParseInt(urlParts[4])
                   ticket == DecodeURIComponent(SliceJoin(urlParts, 4))
               IN  IF turnHost = <<>> \/ turnPort.nan \/ ticket = <<>>
                     THEN Rejected
                     ELSE [code |-> 0, handler |-> "handleTurnConnection",
                           host |-> turnHost, port |-> turnPort.val]
        ELSE ConnectBranch(urlParts, ALLOWED_PORTS_part_002, "handleDirectConnection")

\* The handlers that call net.createConnection({host, port}) when they start.
DialingHandlers == {"handleConnection", "handleDirectConnection", "handleTurnConnection"}

GatewayInit ==
    /\ proxyVariant \in {"main", "part_002"}
    /\ invitePending = {}
    /\ h_upgrades = <<>>
    /\ h_dials = <<>>
    /\ h_http = <<>>

HandleUpgrade(url, d) ==
    /\ h_upgrades' = Append(h_upgrades, [url |-> url, code |-> d.code, handler |-> d.handler])
    /\ h_dials' = IF d.handler \in DialingHandlers
                    THEN Append(h_dials, [host |-> d.host, port |-> d.port,
                                          upgrade |-> Len(h_upgrades) + 1])
                    ELSE h_dials
    /\ invitePending' = IF d.handler = "handleInviteConnection"
                          THEN invitePending \cup {Len(h_upgrades) + 1}
                          ELSE invitePending
    /\ UNCHANGED <<proxyVariant, h_http>>
    /\ UNCHANGED <<relayVars, cacheVars, gcVars, sdVars, sessVars>>

\* wss.on('connection') of websocket-proxy.js
WssOnConnection ==
    /\ proxyVariant = "main"
    /\ Len(h_upgrades) < MaxUpgrades
    /\ \E url \in Urls : HandleUpgrade(url, Admission(url))

\* wss.on('connection') of the variant with /invite and /turn
WssOnConnection_part_002 ==
    /\ proxyVariant = "part_002"
    /\ Len(h_upgrades) < MaxUpgrades
    /\ \E url \in Urls : HandleUpgrade(url, Admission_part_002(url))

\* handleInviteConnection after `await resolveInviteCode(inviteCode)` resolved
InviteResolves ==
    \E i \in invitePending, result \in ResolveResults :
        /\ invitePending' = invitePending \ {i}
        /\ h_upgrades' = [h_upgrades EXCEPT ![i].handler =
                             IF result.type = "turn" /\ result.ticket # <<>>
                               THEN "handleTurnConnection"
                               ELSE "handleDirectConnection"]
        /\ h_dials' = Append(h_dials, [host |-> result.hostname, port |-> result.port,
                                       upgrade |-> i])
        /\ UNCHANGED <<proxyVariant, h_http>>
        /\ UNCHANGED <<relayVars, cacheVars, gcVars, sdVars, sessVars>>

\* handleInviteConnection after resolveInviteCode rejected: ws.close(1011, ...)
InviteRejects ==
    \E i \in invitePending :
        /\ invitePending' = invitePending \ {i}
        /\ h_upgrades' = [h_upgrades EXCEPT ![i].code = 1011, ![i].handler = "none"]
        /\ UNCHANGED <<proxyVariant, h_dials, h_http>>
        /\ UNCHANGED <<relayVars, cacheVars, gcVars, sdVars, sessVars>>

GatewayNext ==
    \/ WssOnConnection
    \/ WssOnConnection_part_002
    \/ InviteResolves
    \/ InviteRejects

-----------------------------------------------------------------------------
(* HTTP requests: createServer(async (req, res) => ...) *)

S_health == <<"h","e","a","l","t","h">>
S_resolve == <<"r","e","s","o","l","v","e">>

\* req.method and req.url of the requests the model sends
HttpMethods == {"GET", "OPTIONS", "POST"}
HttpUrls ==
    { Path(<<S_servers>>),
      Path(<<S_health>>),
      Path(<<S_resolve, I_code>>),
      Path(<<S_resolve, <<"A", "B">>>>),
      Path(<<S_resolve, <<>>>>),
      Path(<<S_resolve>>),
      Path(<<S_servers, H_a>>),
      Path(<<S_connect, H_a, P_3979>>),
      <<"/">> }

\* str.startsWith(prefix)
StartsWith(str, prefix) ==
    Len(str) >= Len(prefix) /\ SubSeq(str, 1, Len(prefix)) = prefix

\* str.substring(start)
Substring(str, start) == SubSeq(str, start + 1, Len(str))

\* res.writeHead(status, {'Content-Type': contentType}); res.end(body), or the
\* call the handler awaits before it responds
Response(status, contentType, body) ==
    [status |-> status, contentType |-> contentType, body |-> body, awaiting |-> "none"]
Awaiting(call) ==
    [status |-> 0, contentType |-> "", body |-> "", awaiting |-> call]

NotFound == Response(404, "text/plain", "Not Found")

\* The routes both files have: OPTIONS, GET /servers, GET /health.  The
\* response of GET /servers is sent after fetchServerList() or from the cache.
CommonRoute(method, url, otherwise) ==
    IF method = "OPTIONS" THEN Response(204, "", "")
    ELSE IF method = "GET" /\ url = Path(<<S_servers>>) THEN Awaiting("fetchServerList")
    ELSE IF method = "GET" /\ url = Path(<<S_health>>)
      THEN Response(200, "application/json", "{status:ok}")
    ELSE otherwise

\* the request handler of websocket-proxy.js
HttpRoute(method, url) == CommonRoute(method, url, NotFound)

\* the request handler of the variant with /invite and /turn, which has
\* GET /resolve/<invite_code>
HttpRoute_part_002(method, url) ==
    CommonRoute(method, url,
        IF method = "GET" /\ StartsWith(url, Path(<<S_resolve, <<>>>>))
          THEN IF DecodeURIComponent(Substring(url, Len(Path(<<S_resolve, <<>>>>)))) = <<>>
                 THEN Response(400, "application/json", "{error:Missing invite code}")
                 ELSE Awaiting("resolveInviteCode")
          ELSE NotFound)

\* A request arrives: the three CORS headers are set, then the route is taken.
HttpOnRequest ==
    /\ Len(h_http) < MaxHttpRequests
    /\ \E method \in HttpMethods, url \in HttpUrls :
          h_http' = Append(h_http,
              [method |-> method, url |-> url,
               cors |-> {"Access-Control-Allow-Origin", "Access-Control-Allow-Methods",
                         "Access-Control-Allow-Headers"},
               response |-> IF proxyVariant = "main" THEN HttpRoute(method, url)
                            ELSE HttpRoute_part_002(method, url)])
    /\ UNCHANGED <<proxyVariant, invitePending, h_upgrades, h_dials>>
    /\ UNCHANGED <<relayVars, cacheVars, gcVars, sdVars, sessVars>>

\* The promise a handler awaits settles: 200 with the JSON of the value, or the
\* catch block's 500 with {error: err.message}.
HttpAwaitSettles ==
    /\ \E i \in 1..Len(h_http), status \in {200, 500} :
          /\ h_http[i].response.awaiting # "none"
          /\ h_http[i].response.status = 0
          /\ h_http' = [h_http EXCEPT ![i].response.status = status,
                                      ![i].response.contentType = "application/json",
                                      ![i].response.body =
                                          IF status = 200 THEN "JSON.stringify(value)"
                                          ELSE "{error:err.message}"]
    /\ UNCHANGED <<proxyVariant, invitePending, h_upgrades, h_dials>>
    /\ UNCHANGED <<relayVars, cacheVars, gcVars, sdVars, sessVars>>

HttpNext ==
    \/ HttpOnRequest
    \/ HttpAwaitSettles

\* C23: every request handled got the response its method and path select:
\* 204 for OPTIONS; the server list for GET /servers; 200 {"status":"ok"} for
\* GET /health; for GET /resolve/<code>, 400 {"error":"Missing invite code"}
\* when the decoded code is empty and the result of the resolution otherwise;
\* 404 for every other request; and the three CORS headers in every case.
C23_HttpRouting ==
    \A i \in 1..Len(h_http) :
        LET method == h_http[i].method
            url == h_http[i].url
            response == h_http[i].response
            resolvePrefix == <<"/">> \o S_resolve \o <<"/">>
        IN  /\ Cardinality(h_http[i].cors) = 3
            /\ IF method = "OPTIONS" THEN response.status = 204
               ELSE IF method = "GET" /\ url = <<"/">> \o S_servers
                 THEN response.awaiting = "fetchServerList"
               ELSE IF method = "GET" /\ url = <<"/">> \o S_health
                 THEN response.status = 200 /\ response.body = "{status:ok}"
               ELSE IF method = "GET" /\ StartsWith(url, resolvePrefix)
                 THEN IF DecodeURIComponent(Substring(url, Len(resolvePrefix))) = <<>>
                        THEN /\ response.status = 400
                             /\ response.body = "{error:Missing invite code}"
                        ELSE response.awaiting = "resolveInviteCode"
               ELSE response.status = 404

-----------------------------------------------------------------------------
(* Claims about the admission *)

AllowedPortsOfVariant ==
    IF proxyVariant = "main" THEN ALLOWED_PORTS ELSE ALLOWED_PORTS_part_002

\* C3: every net.createConnection made for a WebSocket upgrade goes to a port
\* of ALLOWED_PORTS and, when ALLOWED_SERVERS is not empty, to a host of
\* ALLOWED_SERVERS.
C3_AllowListBeforeDial ==
    \A i \in 1..Len(h_dials) :
        /\ h_dials[i].port \in AllowedPortsOfVariant
        /\ ALLOWED_SERVERS # {} => h_dials[i].host \in ALLOWED_SERVERS

\* a decimal u16: one or more decimal digits and nothing else, at most 65535
IsDecimalU16(text) ==
    /\ text # <<>>
    /\ DigitPrefixLen(text, 10) = Len(text)
    /\ DigitsValue(text, 10, 0) <= 65535

\* the URL is exactly /connect/<host>/<port> and passes the policy
Admissible(url) ==
    LET parts == Split(url)
    IN  /\ Len(parts) = 4
        /\ parts[1] = <<>>
        /\ parts[2] = S_connect
        /\ parts[3] # <<>>
        /\ IsDecimalU16(parts[4])
        /\ DigitsValue(parts[4], 10, 0) \in ALLOWED_PORTS
        /\ ALLOWED_SERVERS # {} => parts[3] \in ALLOWED_SERVERS

\* C8: in websocket-proxy.js an upgrade whose URL is not exactly
\* /connect/<host>/<port> with a non-empty host, a decimal u16 port of
\* ALLOWED_PORTS and an allowed host is closed with 1008 and starts no session.
C8_AdmissionIsStrict ==
    proxyVariant = "main" =>
        \A i \in 1..Len(h_upgrades) :
            ~Admissible(h_upgrades[i].url) =>
                (h_upgrades[i].code = 1008 /\ h_upgrades[i].handler = "none")

\* C24: an upgrade to /connect/<host>/<port> that is accepted, so that a relay
\* session to <host>:<port> is started, has port 3979 or 3978.
C24_DocumentedAllowList ==
    \A i \in 1..Len(h_dials) :
        LET parts == Split(h_upgrades[h_dials[i].upgrade].url)
        IN  (Len(parts) >= 2 /\ parts[2] = S_connect) => h_dials[i].port \in {3979, 3978}

-----------------------------------------------------------------------------
(* GET /servers and its cache *)

\* how far the clock moves between two events, in milliseconds
TickSteps == {1000, 59000, 60000}

\* lists fetchServerList can resolve with (servers are named by their
\* connection_string) and messages it can reject with
ServerLists == {<<>>, <<"s1">>, <<"s2", "s1">>}
FetchErrors == {"ECONNREFUSED"}

\* let serverListCache = null
Null == [set |-> FALSE, list |-> <<>>]
Array(list) == [set |-> TRUE, list |-> list]

\* JSON.stringify of an array, as a sequence of tokens
RECURSIVE StringifyItems(_)
StringifyItems(list) ==
    IF list = <<>> THEN <<>>
    ELSE IF Len(list) = 1 THEN <<Head(list)>>
    ELSE <<Head(list), ",">> \o StringifyItems(Tail(list))

Stringify(list) == <<"[">> \o StringifyItems(list) \o <<"]">>

\* JSON.stringify({ error: err.message })
StringifyError(message) == <<"{", "error", ":", message, "}">>

\* A variant that takes an empty list for a missing one.
Truthy_EmptyIsFalse(value) == value.set /\ value.list # <<>>

\* `serverListCache && ...`: null is falsy, every array is truthy
Truthy(value) == value.set

\* if (serverListCache && (now - serverListCacheTime) < CACHE_TTL)
CacheIsFresh(now) == Truthy(serverListCache) /\ (now - serverListCacheTime) < CACHE_TTL

NoRequest ==
    [state |-> "none", now |-> 0, status |-> 0, body |-> <<>>, fetched |-> FALSE,
     failed |-> FALSE, cacheAt |-> Null, cacheTimeAt |-> 0, storesAt |-> 0,
     populatingBodyAt |-> <<>>]

CacheInit ==
    /\ serverListCache = Null
    /\ serverListCacheTime = 0
    /\ clock = StartClock
    /\ requests = [r \in 1..MaxRequests |-> NoRequest]
    /\ h_ticks = 0
    /\ h_stores = 0
    /\ h_populatingBody = <<>>

\* Time passes.
Tick ==
    /\ h_ticks < MaxTicks
    /\ \E d \in TickSteps : clock' = clock + d
    /\ h_ticks' = h_ticks + 1
    /\ UNCHANGED <<serverListCache, serverListCacheTime, requests, h_stores,
                   h_populatingBody>>
    /\ UNCHANGED <<relayVars, gwVars, gcVars, sdVars, sessVars>>

\* The request handler for GET /servers, up to its first await: answer from
\* the cache, or call fetchServerList and wait for it.
GetServers ==
    \E r \in 1..MaxRequests :
        /\ requests[r].state = "none"
        /\ \A q \in 1..(r - 1) : requests[q].state # "none"
        /\ LET now == clock
               arrival == [NoRequest EXCEPT !.now = now,
                              !.cacheAt = serverListCache,
                              !.cacheTimeAt = serverListCacheTime,
                              !.storesAt = h_stores,
                              !.populatingBodyAt = h_populatingBody]
           IN  requests' = [requests EXCEPT ![r] =
                   IF CacheIsFresh(now)
                     THEN [arrival EXCEPT !.state = "done", !.status = 200,
                              !.body = Stringify(serverListCache.list)]
                     ELSE [arrival EXCEPT !.state = "awaiting", !.fetched = TRUE]]
        /\ UNCHANGED <<serverListCache, serverListCacheTime, clock, h_ticks, h_stores,
                       h_populatingBody>>
        /\ UNCHANGED <<relayVars, gwVars, gcVars, sdVars, sessVars>>

\* `await fetchServerList()` resolved with servers: update the cache, answer 200.
FetchResolves ==
    \E r \in 1..MaxRequests, servers \in ServerLists :
        /\ requests[r].state = "awaiting"
        /\ serverListCache' = Array(servers)
        /\ serverListCacheTime' = requests[r].now
        /\ requests' = [requests EXCEPT ![r].state = "done", ![r].status = 200,
                                        ![r].body = Stringify(servers)]
        /\ h_stores' = h_stores + 1
        /\ h_populatingBody' = Stringify(servers)
        /\ UNCHANGED <<clock, h_ticks>>
        /\ UNCHANGED <<relayVars, gwVars, gcVars, sdVars, sessVars>>

\* A variant whose catch block forgets the list it holds.
CacheAfterFailure_Cleared == Null

\* The catch block assigns neither serverListCache nor serverListCacheTime.
CacheAfterFailure == serverListCache
CacheTimeAfterFailure == serverListCacheTime

\* `await fetchServerList()` rejected with err: answer 500 {error: err.message}.
FetchRejects ==
    \E r \in 1..MaxRequests, message \in FetchErrors :
        /\ requests[r].state = "awaiting"
        /\ serverListCache' = CacheAfterFailure
        /\ serverListCacheTime' = CacheTimeAfterFailure
        /\ requests' = [requests EXCEPT ![r].state = "done", ![r].status = 500,
                                        ![r].body = StringifyError(message),
                                        ![r].failed = TRUE]
        /\ UNCHANGED <<clock, h_ticks, h_stores, h_populatingBody>>
        /\ UNCHANGED <<relayVars, gwVars, gcVars, sdVars, sessVars>>

CacheNext ==
    \/ Tick
    \/ GetServers
    \/ FetchResolves
    \/ FetchRejects

-----------------------------------------------------------------------------
(* Claims about GET /servers *)

\* C4: at most one fetchServerList call is in flight at any time.
C4_SingleFlight ==
    Cardinality({r \in 1..MaxRequests : requests[r].state = "awaiting"}) <= 1

HitAtArrival(q) == q.cacheAt.set /\ q.now - q.cacheTimeAt < CACHE_TTL

\* C5: a request that arrives when a list is stored and now - serverListCacheTime
\* < CACHE_TTL calls no fetchServerList and is answered 200 with the body of the
\* response that stored that list, also when the list is empty.
C5_CacheHitWithinTtl ==
    \A r \in 1..MaxRequests :
        (requests[r].state # "none" /\ HitAtArrival(requests[r])) =>
            /\ ~requests[r].fetched
            /\ requests[r].state = "done"
            /\ requests[r].status = 200
            /\ requests[r].body = requests[r].populatingBodyAt

\* C5 witness: a request was answered from a stored empty list, some time
\* after the list was stored.
C5_Witness ==
    \E r \in 1..MaxRequests :
        /\ requests[r].state = "done" /\ ~requests[r].fetched
        /\ requests[r].cacheAt = Array(<<>>)
        /\ requests[r].now > requests[r].cacheTimeAt
        /\ requests[r].body = <<"[", "]">>

\* C9: the step in which a request's fetchServerList fails and the request is
\* answered 500 changes neither serverListCache nor serverListCacheTime; and
\* when no other request has stored a list since this request arrived, both
\* are what they were when it arrived.
C9_FailureLeavesCache ==
    [][\A r \in 1..MaxRequests :
          (requests[r].state = "awaiting" /\ requests'[r].state = "done"
              /\ requests'[r].status = 500) =>
             /\ serverListCache' = serverListCache
             /\ serverListCacheTime' = serverListCacheTime
             /\ h_stores = requests[r].storesAt =>
                   /\ serverListCache' = requests[r].cacheAt
                   /\ serverListCacheTime' = requests[r].cacheTimeAt]_vars

\* C9 witness: a refresh failed while an expired list was stored, and the list
\* and its time are still the ones the request found.
C9_Witness ==
    \E r \in 1..MaxRequests :
        /\ requests[r].state = "done" /\ requests[r].status = 500
        /\ requests[r].cacheAt.set
        /\ serverListCache = requests[r].cacheAt
        /\ serverListCacheTime = requests[r].cacheTimeAt

\* C10: a request is answered 500 only when its refresh failed and no list
\* was stored when it arrived; a request whose refresh failed and that found
\* a stored (expired) list when it arrived is answered 200 with that list.
C10_StaleListOnFailure ==
    \A r \in 1..MaxRequests :
        requests[r].state = "done" =>
            /\ requests[r].status = 500 =>
                  (requests[r].failed /\ ~requests[r].cacheAt.set)
            /\ (requests[r].failed /\ requests[r].cacheAt.set) =>
                  /\ requests[r].status = 200
                  /\ requests[r].body = Stringify(requests[r].cacheAt.list)

-----------------------------------------------------------------------------
(* Buffers.  A Buffer is a sequence of bytes (0..255); offsets count from 0  *)
(* as in the code.                                                           *)

Min(a, b) == IF a < b THEN a ELSE b
Max(a, b) == IF a > b THEN a ELSE b

\* buf.subarray(start, end): clamped to the buffer, empty when end <= start
Subarray(buf, start, end) ==
    LET s == Min(Max(start, 0), Len(buf))
        e == Min(Max(end, 0), Len(buf))
    IN  IF e <= s THEN <<>> ELSE SubSeq(buf, s + 1, e)

\* buf.readUInt8 / readUInt16LE / ... throw a RangeError unless the n bytes at
\* offset lie inside the buffer
CanRead(buf, offset, n) == offset >= 0 /\ offset + n <= Len(buf)
ReadUInt8(buf, offset) == buf[offset + 1]
ReadUInt16LE(buf, offset) == buf[offset + 1] + 256 * buf[offset + 2]
\* a number beyond the integers of the model checker is held as 2^31 - 1
ReadUInt32LE(buf, offset) ==
    IF buf[offset + 4] >= 128 THEN 2147483647
    ELSE buf[offset + 1] + 256 * buf[offset + 2] + 65536 * buf[offset + 3]
            + 16777216 * buf[offset + 4]

\* the `while (end < buffer.length && buffer[end] !== 0) end++` scan
RECURSIVE StringEnd(_, _)
StringEnd(buf, end) ==
    IF end < Len(buf) /\ buf[end + 1] # 0 THEN StringEnd(buf, end + 1) ELSE end

\* toString('utf8') on the ASCII bytes the model's packets use
Chr(b) ==
    CASE b = 43 -> "+" [] b = 45 -> "-" [] b = 58 -> ":"
      [] b = 48 -> "0" [] b = 49 -> "1" [] b = 50 -> "2" [] b = 51 -> "3"
      [] b = 52 -> "4" [] b = 53 -> "5" [] b = 54 -> "6" [] b = 55 -> "7"
      [] b = 56 -> "8" [] b = 57 -> "9"
      [] b = 65 -> "A" [] b = 66 -> "B"
      [] b = 97 -> "a" [] b = 98 -> "b" [] b = 101 -> "e" [] b = 104 -> "h"
      [] b = 116 -> "t"
      [] OTHER -> "?"

\* the character of a two-byte sequence; the model's packets use U+00E9
Chr2(b1, b2) == IF b1 = 195 /\ b2 = 169 THEN "U+00E9" ELSE "U+0080..U+07FF"

\* toString('utf8'): a lead byte 0xC2..0xDF with a continuation byte 0x80..0xBF
\* is one character, any other byte is taken alone (the model's packets hold
\* no longer sequences)
RECURSIVE Utf8Decode(_, _)
Utf8Decode(bytes, i) ==
    IF i > Len(bytes) THEN <<>>
    ELSE IF bytes[i] \in 194..223 /\ i < Len(bytes) /\ bytes[i + 1] \in 128..191
      THEN <<Chr2(bytes[i], bytes[i + 1])>> \o Utf8Decode(bytes, i + 2)
    ELSE <<Chr(bytes[i])>> \o Utf8Decode(bytes, i + 1)

Utf8ToString(bytes) == Utf8Decode(bytes, 1)

\* function readString(buffer, offset)
readString(buffer, offset) == Utf8ToString(Subarray(buffer, offset, StringEnd(buffer, offset)))

\* what the coordinator writes: a little-endian u16, a null-terminated string,
\* a packet `u16 size . u8 type . payload`
U16LE(n) == <<n % 256, n \div 256>>
CStr(bytes) == bytes \o <<0>>
Packet(type, payload) == U16LE(3 + Len(payload)) \o <<type>> \o payload

\* String.prototype.split(sep)
RECURSIVE SplitOnFrom(_, _, _, _)
SplitOnFrom(str, sep, cur, acc) ==
    IF str = <<>> THEN Append(acc, cur)
    ELSE IF Head(str) = sep THEN SplitOnFrom(Tail(str), sep, <<>>, Append(acc, cur))
    ELSE SplitOnFrom(Tail(str), sep, Append(cur, Head(str)), acc)

SplitOn(str, sep) == SplitOnFrom(str, sep, <<>>, <<>>)

\* Packet types
PACKET_COORDINATOR_GC_ERROR == 0
PACKET_COORDINATOR_GC_LISTING == 5
PACKET_COORDINATOR_GC_CONNECTING == 7
PACKET_COORDINATOR_GC_CONNECT_FAILED == 9
PACKET_COORDINATOR_GC_DIRECT_CONNECT == 11
PACKET_COORDINATOR_GC_STUN_REQUEST == 12
PACKET_COORDINATOR_GC_NEWGRF_LOOKUP == 15
PACKET_COORDINATOR_GC_TURN_CONNECT == 16
PACKET_COORDINATOR_CLIENT_LISTING == 4
PACKET_COORDINATOR_CLIENT_CONNECT == 6

NETWORK_COORDINATOR_VERSION == 6
NETWORK_GAME_INFO_VERSION == 7
OPENTTD_REVISION == <<"1", "4", ".", "1">>

\* Buffer.from(str, 'utf8') on the characters the model uses
CharBytes(c) ==
    CASE c = "+" -> <<43>> [] c = "." -> <<46>> [] c = "1" -> <<49>> [] c = "4" -> <<52>>
      [] c = "A" -> <<65>> [] c = "B" -> <<66>>
      [] c = "U+00E9" -> <<195, 169>>
      [] OTHER -> <<63>>

RECURSIVE Utf8Bytes(_)
Utf8Bytes(str) == IF str = <<>> THEN <<>> ELSE CharBytes(Head(str)) \o Utf8Bytes(Tail(str))

\* Buffer.from(str, 'utf8').length
Utf8Length(str) == Len(str) + Cardinality({i \in 1..Len(str) : str[i] = "U+00E9"})

\* a code whose CLIENT_CONNECT packet would have more than 65535 bytes
LongInviteCode == [i \in 1..65531 |-> "A"]

\* invite codes passed to resolveInviteCode: with and without the leading "+",
\* with a "+" that is not leading, empty, with a two-byte character, too long
InviteCodes ==
    { <<"+", "A", "B">>, <<"A", "+", "B">>, <<>>, <<"U+00E9", "A">>, LongInviteCode }

\* A variant that prepends the sigil whatever the code starts with.
NormalizedInviteCode_Always(code) == <<"+">> \o code

\* resolveInviteCode: if (!inviteCode.startsWith('+')) inviteCode = '+' + inviteCode
NormalizedInviteCode(code) ==
    IF ~(code # <<>> /\ Head(code) = "+") THEN <<"+">> \o code ELSE code

\* const packetSize = 3 + payloadSize; // header + payload
PacketSizeOf_NoHeader(payloadSize) == payloadSize
PacketSizeOf(payloadSize) == 3 + payloadSize

\* packet.writeUInt16LE(value, offset) throws a RangeError unless value fits
WriteUInt16LEThrows(value) == value < 0 \/ value > 65535

\* createConnectPacket(inviteCode) throws at packet.writeUInt16LE(packetSize)
createConnectPacketThrows(code) ==
    WriteUInt16LEThrows(PacketSizeOf(1 + Utf8Length(code) + 1))

\* function createConnectPacket(inviteCode)
createConnectPacket(code) ==
    LET inviteCodeBytes == Utf8Bytes(code) \o <<0>>
        payloadSize == 1 + Len(inviteCodeBytes)
        packetSize == PacketSizeOf(payloadSize)
    IN  U16LE(packetSize) \o <<PACKET_COORDINATOR_CLIENT_CONNECT>>
            \o <<NETWORK_COORDINATOR_VERSION>> \o inviteCodeBytes

\* function createListingPacket()
createListingPacket ==
    LET revisionBytes == Utf8Bytes(OPENTTD_REVISION) \o <<0>>
        payloadSize == 1 + 1 + Len(revisionBytes) + 4
        packetSize == PacketSizeOf(payloadSize)
    IN  U16LE(packetSize) \o <<PACKET_COORDINATOR_CLIENT_LISTING>>
            \o <<NETWORK_COORDINATOR_VERSION, NETWORK_GAME_INFO_VERSION>>
            \o revisionBytes \o <<0, 0, 0, 0>>

-----------------------------------------------------------------------------
(* Coordinator session: the packet loops of resolveInviteCode and            *)
(* fetchServerList.  A loop is computed on the whole buffer, as the 'data'   *)
(* handler runs it, and yields what the handler did.                         *)

NoValue ==
    [hostname |-> <<>>, port |-> 0, type |-> "", hasTicket |-> FALSE, ticket |-> <<>>,
     message |-> "", errorType |-> -1, detail |-> <<>>, list |-> <<>>]

\* What one run of a packet loop did: the buffer, servers and newgrfLookup it
\* leaves, whether it called clearTimeout(timeout), socket.end() or
\* socket.destroy(), resolve or reject and with what, whether it threw, whether
\* it can no longer end, and the packets it dispatched.
LoopResult(buffer, servers, lookup, dispatched) ==
    [buffer |-> buffer, servers |-> servers, lookup |-> lookup,
     timeoutCleared |-> FALSE, socketOp |-> "none", settle |-> "none",
     value |-> NoValue, threw |-> FALSE, spin |-> FALSE, dispatched |-> dispatched]

\* one entry of the record of dispatched packets: the type and size fields, the
\* payload handed to the branch and its length, the serverCount field when the
\* payload holds one (else -1), whether the branch ended the flow with
\* socket.end() and resolve(...), and, for the list flow, newgrfLookup as the
\* branch found it and the servers parseListingPacket returned
Dispatched(buffer) ==
    LET packetSize == ReadUInt16LE(buffer, 0)
        payload == Subarray(buffer, 3, packetSize)
    IN  [type |-> ReadUInt8(buffer, 2), size |-> packetSize,
         payload |-> payload, payloadLen |-> Len(payload),
         lookup |-> <<>>, decoded |-> <<>>,
         serverCount |-> IF ReadUInt8(buffer, 2) = PACKET_COORDINATOR_GC_LISTING
                              /\ CanRead(payload, 0, 2)
                           THEN ReadUInt16LE(payload, 0) ELSE -1,
         ended |-> FALSE]

\* the last dispatched packet ended the flow
MarkEnded(dispatched) == [dispatched EXCEPT ![Len(dispatched)].ended = TRUE]

\* parseInt(turnPort) || 3979: NaN and 0 are falsy
PortOrDefault(p) == IF p.nan \/ p.val = 0 THEN 3979 ELSE p.val

\* resolveInviteCode, GC_ERROR branch
ResolveGcError(r, payload) ==
    LET cleared == [r EXCEPT !.timeoutCleared = TRUE, !.socketOp = "destroy"]
    IN  IF ~CanRead(payload, 0, 1) THEN [cleared EXCEPT !.threw = TRUE]
        ELSE [cleared EXCEPT !.settle = "reject",
                             !.value = [NoValue EXCEPT !.message = "Coordinator error",
                                           !.errorType = ReadUInt8(payload, 0),
                                           !.detail = readString(payload, 1)]]

\* resolveInviteCode, GC_DIRECT_CONNECT branch
ResolveDirectConnect(r, payload) ==
    LET cleared == [r EXCEPT !.timeoutCleared = TRUE]
        responseToken == readString(payload, 0)
        offset1 == Len(responseToken) + 1
        offset2 == offset1 + 1
        hostname == readString(payload, offset2)
        offset3 == offset2 + Len(hostname) + 1
    IN  IF ~CanRead(payload, offset1, 1) \/ ~CanRead(payload, offset3, 2)
          THEN [cleared EXCEPT !.threw = TRUE]
          ELSE [cleared EXCEPT !.socketOp = "end", !.settle = "resolve",
                   !.dispatched = MarkEnded(@),
                   !.value = [NoValue EXCEPT !.hostname = hostname,
                                 !.port = ReadUInt16LE(payload, offset3),
                                 !.type = "direct"]]

\* resolveInviteCode, GC_TURN_CONNECT branch
ResolveTurnConnect(r, payload) ==
    LET cleared == [r EXCEPT !.timeoutCleared = TRUE]
        responseToken == readString(payload, 0)
        offset1 == Len(responseToken) + 1
        offset2 == offset1 + 1
        ticket == readString(payload, offset2)
        offset3 == offset2 + Len(ticket) + 1
        connectionString == readString(payload, offset3)
        parts == SplitOn(connectionString, ":")
        turnHost == parts[1]
        turnPort == IF Len(parts) >= 2 THEN ParseInt(parts[2]) ELSE NaN
    IN  IF ~CanRead(payload, offset1, 1)
          THEN [cleared EXCEPT !.threw = TRUE]
          ELSE [cleared EXCEPT !.socketOp = "end", !.settle = "resolve",
                   !.dispatched = MarkEnded(@),
                   !.value = [NoValue EXCEPT !.hostname = turnHost,
                                 !.port = PortOrDefault(turnPort),
                                 !.type = "turn", !.hasTicket = TRUE,
                                 !.ticket = ticket]]

\* resolveInviteCode, GC_CONNECT_FAILED branch
ResolveConnectFailed(r) ==
    [r EXCEPT !.timeoutCleared = TRUE, !.socketOp = "destroy", !.settle = "reject",
              !.value = [NoValue EXCEPT !.message = "Connection failed"]]

\* resolveInviteCode, GC_CONNECTING, GC_STUN_REQUEST and every other type: no
\* branch returns, the loop goes on after buffer = buffer.subarray(packetSize)
KeepReading_Fails(r, packetSize) == ResolveConnectFailed(r)
KeepReading(r, packetSize) ==
    IF packetSize = 0 THEN [r EXCEPT !.spin = TRUE]
    ELSE [r EXCEPT !.buffer = Subarray(@, packetSize, Len(@))]

\* resolveInviteCode: one pass of the body of while (buffer.length >= 3) on a
\* complete packet
ResolvePacket(st) ==
    LET packetSize == ReadUInt16LE(st.buffer, 0)
        packetType == ReadUInt8(st.buffer, 2)
        payload == Subarray(st.buffer, 3, packetSize)
        r == [st EXCEPT !.dispatched = Append(@, Dispatched(st.buffer))]
    IN  IF packetType = PACKET_COORDINATOR_GC_ERROR THEN ResolveGcError(r, payload)
        ELSE IF packetType = PACKET_COORDINATOR_GC_DIRECT_CONNECT
          THEN ResolveDirectConnect(r, payload)
        ELSE IF packetType = PACKET_COORDINATOR_GC_TURN_CONNECT
          THEN ResolveTurnConnect(r, payload)
        ELSE IF packetType = PACKET_COORDINATOR_GC_CONNECT_FAILED
          THEN ResolveConnectFailed(r)
        ELSE KeepReading(r, packetSize)

\* if (buffer.length < packetSize) break;
PacketIncomplete_Never(buffer) == FALSE
PacketIncomplete(buffer) == Len(buffer) < ReadUInt16LE(buffer, 0)

\* resolveInviteCode: while (buffer.length >= 3) { ... }
RECURSIVE ResolveLoop(_)
ResolveLoop(st) ==
    IF Len(st.buffer) < 3 THEN st
    ELSE IF PacketIncomplete(st.buffer) THEN st
    ELSE CHOOSE out \in { IF st2.settle # "none" \/ st2.threw \/ st2.spin
                            THEN st2 ELSE ResolveLoop(st2) :
                          st2 \in {ResolvePacket(st)} } : TRUE

\* lookupTable.set(index, {grfId, md5, name}); the model keeps the name
MapSet(lookup, index, name) ==
    [k \in DOMAIN lookup \cup {index} |-> IF k = index THEN name ELSE lookup[k]]

\* parseNewGRFLookup: the `for (let i = 0; i < count; i++)` loop
RECURSIVE NewGRFEntries(_, _, _, _, _)
NewGRFEntries(payload, offset, i, count, lookup) ==
    IF i >= count \/ offset >= Len(payload) THEN [threw |-> FALSE, lookup |-> lookup]
    ELSE IF ~CanRead(payload, offset, 4) \/ ~CanRead(payload, offset + 4, 4)
      THEN [threw |-> TRUE, lookup |-> lookup]
    ELSE LET index == ReadUInt32LE(payload, offset)
             nameStart == offset + 4 + 4 + 16
             nameEnd == StringEnd(payload, nameStart)
             name == Utf8ToString(Subarray(payload, nameStart, nameEnd))
         IN  NewGRFEntries(payload, nameEnd + 1, i + 1, count, MapSet(lookup, index, name))

\* function parseNewGRFLookup(payload, lookupTable)
parseNewGRFLookup(payload, lookupTable) ==
    IF ~CanRead(payload, 4, 2) THEN [threw |-> TRUE, lookup |-> lookupTable]
    ELSE NewGRFEntries(payload, 6, 0, ReadUInt16LE(payload, 4), lookupTable)

\* const LANDSCAPE_NAMES; LANDSCAPE_NAMES[landscapeType] || 'Unknown'
LANDSCAPE_NAMES == <<"Temperate", "Arctic", "Tropical", "Toyland">>
LandscapeName(landscapeType) ==
    IF landscapeType < Len(LANDSCAPE_NAMES) THEN LANDSCAPE_NAMES[landscapeType + 1]
    ELSE "Unknown"

\* the little-endian unsigned number in the n bytes at offset; a number beyond
\* the integers of the model checker (2^31 - 1) is held as 2^31 - 1
RECURSIVE ReadUIntLE(_, _, _)
ReadUIntLE(buf, offset, n) ==
    IF n = 0 THEN 0
    ELSE CHOOSE v \in { IF hi > 8388607 THEN 2147483647 ELSE buf[offset + 1] + 256 * hi :
                        hi \in {ReadUIntLE(buf, offset + 1, n - 1)} } : TRUE

\* readInt32LE: two's complement, the sign is in the last byte
ReadInt32LE(buf, offset) ==
    LET top == buf[offset + 4]
    IN  ReadUIntLE(buf, offset, 3) + 16777216 * (IF top >= 128 THEN top - 256 ELSE top)

\* The reads parseListingPacket makes for one server, in the order of the
\* code.  A read is made when from <= infoVersion <= to.  Kinds: "string"
\* (scan to the null byte; never throws), "skipString", "skip" (offset += size;
\* never throws), "uint", "int32", "bool" (readUInt8(offset) === 1),
\* "landscape", "newgrfs"; the reads of numbers throw outside the payload.
Field(name, kind, size, from, to) ==
    [name |-> name, kind |-> kind, size |-> size, from |-> from, to |-> to]

NetworkGameInfoFields ==
    << Field("connection_string", "string", 0, 0, 255),
       Field("infoVersion", "uint", 1, 0, 255),
       Field("ticks_playing", "uint", 8, 7, 255),
       Field("newgrfType", "uint", 1, 6, 255),
       Field("gamescript_version", "int32", 4, 5, 255),
       Field("gamescript_name", "string", 0, 5, 255),
       Field("newgrfs", "newgrfs", 1, 4, 255),
       Field("calendar_date", "int32", 4, 3, 255),
       Field("calendar_start", "int32", 4, 3, 255),
       Field("companies_max", "uint", 1, 2, 255),
       Field("companies_on", "uint", 1, 2, 255),
       Field("spectators_max", "uint", 1, 2, 255),
       Field("name", "string", 0, 0, 255),
       Field("version", "string", 0, 0, 255),
       Field("language", "skip", 1, 0, 5),
       Field("password", "bool", 1, 0, 255),
       Field("clients_max", "uint", 1, 0, 255),
       Field("clients_on", "uint", 1, 0, 255),
       Field("spectators_on", "uint", 1, 0, 255),
       Field("old date", "skip", 4, 0, 2),
       Field("map name", "skipString", 0, 0, 5),
       Field("map_width", "uint", 2, 0, 255),
       Field("map_height", "uint", 2, 0, 255),
       Field("landscape", "landscape", 1, 0, 255),
       Field("dedicated", "bool", 1, 0, 255) >>

\* const server = {} with the properties the code assigns; a property that is
\* not assigned for the entry's version keeps the value it has here
EmptyServer ==
    [connection_string |-> <<>>, ticks_playing |-> 0, gamescript_version |-> 0,
     gamescript_name |-> <<>>, newgrfs |-> <<>>, calendar_date |-> 0,
     calendar_start |-> 0, companies_max |-> 0, companies_on |-> 0,
     spectators_max |-> 0, name |-> <<>>, version |-> <<>>, password |-> FALSE,
     clients_max |-> 0, clients_on |-> 0, spectators_on |-> 0, map_width |-> 0,
     map_height |-> 0, landscape |-> "", dedicated |-> FALSE]

\* the state of the parse of one server
ServerParse(offset) ==
    [offset |-> offset, ok |-> TRUE, infoVersion |-> 0, newgrfType |-> 0,
     server |-> EmptyServer]

\* server[name] = value, for the names that are properties of server
Assign(st, name, value) ==
    IF name = "infoVersion" THEN [st EXCEPT !.infoVersion = value]
    ELSE IF name = "newgrfType" THEN [st EXCEPT !.newgrfType = value]
    ELSE IF name \in DOMAIN st.server THEN [st EXCEPT !.server[name] = value]
    ELSE st

\* A variant that treats a lookup index missing from the table as a decode
\* error of the entry.
ReadLookupEntry_UnknownThrows(payload, lookup, st) ==
    IF ~CanRead(payload, st.offset, 4) THEN [st EXCEPT !.ok = FALSE]
    ELSE LET lookupIndex == ReadUIntLE(payload, st.offset, 4)
         IN  IF lookupIndex \in DOMAIN lookup
               THEN [st EXCEPT !.offset = @ + 4,
                               !.server.newgrfs = Append(@, lookup[lookupIndex])]
               ELSE [st EXCEPT !.ok = FALSE]

\* parseListingPacket, newgrfType === 2: read the lookup index; push the name
\* when newgrfLookup.get(lookupIndex) finds an entry
ReadLookupEntry(payload, lookup, st) ==
    IF ~CanRead(payload, st.offset, 4) THEN [st EXCEPT !.ok = FALSE]
    ELSE LET lookupIndex == ReadUIntLE(payload, st.offset, 4)
         IN  [st EXCEPT !.offset = @ + 4,
                        !.server.newgrfs =
                            IF lookupIndex \in DOMAIN lookup
                              THEN Append(@, lookup[lookupIndex]) ELSE @]

\* parseListingPacket: the `for (let g = 0; g < grfCount; g++)` loop; g counts
\* the entries still to read
RECURSIVE ParseGrfs(_, _, _, _)
ParseGrfs(payload, lookup, st, g) ==
    IF g = 0 \/ ~st.ok THEN st
    ELSE CHOOSE out \in { ParseGrfs(payload, lookup, next, g - 1) : next \in {
            IF st.newgrfType = 2 THEN ReadLookupEntry(payload, lookup, st)
            ELSE IF st.newgrfType = 1
              THEN LET nameEnd == StringEnd(payload, st.offset + 20)
                   IN  [st EXCEPT !.offset = nameEnd + 1,
                                  !.server.newgrfs = Append(@,
                                      Utf8ToString(Subarray(payload, st.offset + 20, nameEnd)))]
            ELSE [st EXCEPT !.offset = @ + 20] } } : TRUE

\* the version gates: if (infoVersion >= from) and if (infoVersion <= to)
FieldAbsent_LowerGateOnly(infoVersion, f) == infoVersion < f.from
FieldAbsent(infoVersion, f) == infoVersion < f.from \/ infoVersion > f.to

\* one read of the table
ReadField(payload, lookup, st, f) ==
    IF FieldAbsent(st.infoVersion, f) THEN st
    ELSE IF f.kind = "string"
      THEN LET end == StringEnd(payload, st.offset)
           IN  Assign([st EXCEPT !.offset = end + 1], f.name,
                      Utf8ToString(Subarray(payload, st.offset, end)))
    ELSE IF f.kind = "skipString"
      THEN [st EXCEPT !.offset = StringEnd(payload, st.offset) + 1]
    ELSE IF f.kind = "skip" THEN [st EXCEPT !.offset = @ + f.size]
    ELSE IF ~CanRead(payload, st.offset, f.size) THEN [st EXCEPT !.ok = FALSE]
    ELSE IF f.kind = "uint"
      THEN Assign([st EXCEPT !.offset = @ + f.size], f.name,
                  ReadUIntLE(payload, st.offset, f.size))
    ELSE IF f.kind = "int32"
      THEN Assign([st EXCEPT !.offset = @ + 4], f.name, ReadInt32LE(payload, st.offset))
    ELSE IF f.kind = "bool"
      THEN Assign([st EXCEPT !.offset = @ + 1], f.name, ReadUInt8(payload, st.offset) = 1)
    ELSE IF f.kind = "landscape"
      THEN Assign([st EXCEPT !.offset = @ + 1], f.name,
                  LandscapeName(ReadUInt8(payload, st.offset)))
    ELSE ParseGrfs(payload, lookup, [st EXCEPT !.offset = @ + 1],
                   ReadUInt8(payload, st.offset))

\* the reads in order, stopping at the first that throws
RECURSIVE ReadFields(_, _, _, _)
ReadFields(payload, lookup, st, k) ==
    IF k > Len(NetworkGameInfoFields) \/ ~st.ok THEN st
    ELSE CHOOSE out \in { ReadFields(payload, lookup, next, k + 1) :
             next \in {ReadField(payload, lookup, st, NetworkGameInfoFields[k])} } : TRUE

\* parseListingPacket: the body of the try block for one server; ok is FALSE
\* when a read threw
ParseServer(payload, offset, lookup) == ReadFields(payload, lookup, ServerParse(offset), 1)

\* parseListingPacket: the `for (let i = 0; i < serverCount; i++)` loop with
\* its try { ... } catch (e) { break; }; i counts the servers still to read
RECURSIVE ListingServers(_, _, _, _, _)
ListingServers(payload, offset, i, lookup, servers) ==
    IF i = 0 THEN servers
    ELSE CHOOSE out \in {
            IF ~one.ok THEN servers
            ELSE ListingServers(payload, one.offset, i - 1, lookup,
                                Append(servers, one.server)) :
            one \in {ParseServer(payload, offset, lookup)} } : TRUE

\* function parseListingPacket(payload, newgrfLookup): the servers it returns,
\* or threw when the read of serverCount, which no try covers, throws
parseListingPacket(payload, lookup) ==
    IF ~CanRead(payload, 0, 2) THEN [threw |-> TRUE, servers |-> <<>>]
    ELSE LET serverCount == ReadUInt16LE(payload, 0)
         IN  [threw |-> FALSE,
              servers |-> IF serverCount = 0 THEN <<>>
                          ELSE ListingServers(payload, 2, serverCount, lookup, <<>>)]

\* fetchServerList, end of list: `return` comes before
\* buffer = buffer.subarray(packetSize), the packet stays in the buffer
BufferAfterEnd_Consumed(buffer, packetSize) == Subarray(buffer, packetSize, Len(buffer))
BufferAfterEnd(buffer, packetSize) == buffer

\* fetchServerList: one pass of the body of while (buffer.length >= 3) on a
\* complete packet; done is TRUE when the pass left the loop
ListPacket(st) ==
    LET packetSize == ReadUInt16LE(st.buffer, 0)
        packetType == ReadUInt8(st.buffer, 2)
        payload == Subarray(st.buffer, 3, packetSize)
        r == [st EXCEPT !.dispatched =
                 Append(@, [Dispatched(st.buffer) EXCEPT !.lookup = st.lookup])]
        next == [r EXCEPT !.buffer = Subarray(@, packetSize, Len(@))]
    IN  IF packetType = PACKET_COORDINATOR_GC_NEWGRF_LOOKUP
          THEN \* parseNewGRFLookup(payload, newgrfLookup)
               LET grf == parseNewGRFLookup(payload, st.lookup)
               IN  IF grf.threw THEN [r EXCEPT !.lookup = grf.lookup, !.threw = TRUE]
                   ELSE [next EXCEPT !.lookup = grf.lookup]
        ELSE IF packetType = PACKET_COORDINATOR_GC_LISTING
          THEN \* const result = parseListingPacket(payload, newgrfLookup)
               CHOOSE out \in {
                   IF result.threw THEN [r EXCEPT !.threw = TRUE]
                   ELSE IF Len(result.servers) = 0
                     THEN [r EXCEPT !.timeoutCleared = TRUE, !.socketOp = "end",
                                    !.settle = "resolve",
                                    !.buffer = BufferAfterEnd(r.buffer, packetSize),
                                    !.dispatched = MarkEnded(@),
                                    !.value = [NoValue EXCEPT !.list = st.servers]]
                   ELSE [next EXCEPT !.servers = @ \o result.servers,
                                     !.dispatched[Len(r.dispatched)].decoded = result.servers] :
                   result \in {parseListingPacket(payload, st.lookup)} } : TRUE
        ELSE IF packetSize = 0 THEN [r EXCEPT !.spin = TRUE]
        ELSE next

\* the loop has left: it returned, threw, or cannot end
LoopLeft(st) == st.settle # "none" \/ st.threw \/ st.spin

\* fetchServerList: while (buffer.length >= 3) { ... }
RECURSIVE ListLoop(_)
ListLoop(st) ==
    IF Len(st.buffer) < 3 THEN st
    ELSE IF PacketIncomplete(st.buffer) THEN st
    ELSE CHOOSE out \in { IF LoopLeft(next) THEN next ELSE ListLoop(next) :
                          next \in {ListPacket(st)} } : TRUE

-----------------------------------------------------------------------------
(* What the coordinator sends.  Bytes: "a" 97, "b" 98, "e" 101, "h" 104,     *)
(* "t" 116, ":" 58, digits 48..57.                                           *)

Zeros(n) == [i \in 1..n |-> 0]
U32LE(n) == U16LE(n % 65536) \o U16LE(n \div 65536)

\* GC_DIRECT_CONNECT: token, tracking_number, hostname, port
DirectConnect(port) ==
    Packet(PACKET_COORDINATOR_GC_DIRECT_CONNECT,
           CStr(<<116>>) \o <<1>> \o CStr(<<104>>) \o U16LE(port))
\* the same without its port field
DirectConnectTruncated ==
    Packet(PACKET_COORDINATOR_GC_DIRECT_CONNECT, CStr(<<116>>) \o <<1>> \o CStr(<<104>>))
\* GC_TURN_CONNECT: token, tracking_number, ticket, connection_string
TurnConnect(connectionString) ==
    Packet(PACKET_COORDINATOR_GC_TURN_CONNECT,
           CStr(<<116>>) \o <<1>> \o CStr(<<116>>) \o CStr(connectionString))

\* GC_TURN_CONNECT without its connection_string field
TurnConnectTruncated ==
    Packet(PACKET_COORDINATOR_GC_TURN_CONNECT, CStr(<<116>>) \o <<1>> \o CStr(<<116>>))

\* GC_TURN_CONNECT whose connection_string "h" has no terminator
TurnConnectUnterminated ==
    Packet(PACKET_COORDINATOR_GC_TURN_CONNECT,
           CStr(<<116>>) \o <<1>> \o CStr(<<116>>) \o <<104>>)

\* size fields smaller than 3: size 0 and size 2, each followed by a type byte
BadSize(size, type) == U16LE(size) \o <<type>>

\* the two parts of a stream cut after k bytes, for every k of points
Splits(stream, points) ==
    UNION { {SubSeq(stream, 1, k), SubSeq(stream, k + 1, Len(stream))} : k \in points }

\* a stream of two packets of the resolve flow, delivered whole or cut in a
\* header, in a payload or between the packets
ResolveStream ==
    Packet(PACKET_COORDINATOR_GC_CONNECTING, CStr(<<116>>)) \o DirectConnect(3979)

\* GC_DIRECT_CONNECT whose hostname has a two-byte character (U+00E9)
DirectConnectUtf8 ==
    Packet(PACKET_COORDINATOR_GC_DIRECT_CONNECT,
           CStr(<<116>>) \o <<1>> \o CStr(<<195, 169>>) \o U16LE(3979))

\* packets and fragments sent in answer to CLIENT_CONNECT
ResolveData ==
    Splits(ResolveStream, {1, 2, 4, 5, 7, Len(ResolveStream) - 1}) \cup
    { ResolveStream,
      DirectConnectUtf8,
      DirectConnect(3979),
      DirectConnect(0),
      DirectConnectTruncated,
      SubSeq(DirectConnect(3979), 1, 2),
      SubSeq(DirectConnect(3979), 3, Len(DirectConnect(3979))),
      TurnConnect(<<104, 58, 51, 57, 55, 57>>),
      TurnConnect(<<104>>),
      TurnConnect(<<104, 58, 55, 48, 48, 48, 48>>),
      TurnConnectTruncated,
      TurnConnectUnterminated,
      Packet(PACKET_COORDINATOR_GC_CONNECTING, CStr(<<116>>)),
      Packet(PACKET_COORDINATOR_GC_CONNECTING, <<>>),
      Packet(PACKET_COORDINATOR_GC_STUN_REQUEST, CStr(<<116>>)),
      Packet(PACKET_COORDINATOR_GC_ERROR, <<1>> \o CStr(<<101>>)),
      Packet(PACKET_COORDINATOR_GC_ERROR, <<>>),
      Packet(PACKET_COORDINATOR_GC_CONNECT_FAILED, CStr(<<116>>)),
      BadSize(0, PACKET_COORDINATOR_GC_CONNECTING),
      BadSize(2, PACKET_COORDINATOR_GC_STUN_REQUEST),
      BadSize(2, PACKET_COORDINATOR_GC_CONNECT_FAILED) }

\* a server entry with NetworkGameInfo version 1: connection string c, name
\* "b", 1 client, a 64 x 64 map
ServerV1(c) ==
    CStr(<<c>>) \o <<1>> \o CStr(<<98>>) \o CStr(<<>>) \o <<0>> \o <<0, 0, 1, 0>>
        \o Zeros(4) \o CStr(<<>>) \o U16LE(64) \o U16LE(64) \o <<0, 1>>

\* a server entry with version 7 and one NewGRF given by lookup index 1
ServerV7(c) ==
    CStr(<<c>>) \o <<7>> \o Zeros(8) \o <<2>> \o Zeros(4) \o CStr(<<>>)
        \o <<1>> \o U32LE(1) \o Zeros(8) \o <<0, 0, 0>> \o CStr(<<98>>) \o CStr(<<>>)
        \o <<0, 0, 1, 0>> \o U16LE(64) \o U16LE(64) \o <<0, 1>>

\* the bytes of the lookup indices of an entry
RECURSIVE GrfIndices(_)
GrfIndices(indices) ==
    IF indices = <<>> THEN <<>> ELSE U32LE(Head(indices)) \o GrfIndices(Tail(indices))

\* a server entry with version 7 whose NewGRFs are the given lookup indices
ServerV7With(c, indices) ==
    CStr(<<c>>) \o <<7>> \o Zeros(8) \o <<2>> \o Zeros(4) \o CStr(<<>>)
        \o <<Len(indices)>> \o GrfIndices(indices) \o Zeros(8) \o <<0, 0, 0>>
        \o CStr(<<98>>) \o CStr(<<>>) \o <<0, 0, 1, 0>> \o U16LE(64) \o U16LE(64) \o <<0, 1>>

\* a server entry of version v with connection string c, every field with a
\* value of its own; one NewGRF given by GRF ID and MD5 from version 4 on
ServerRecord(v, c) ==
    CStr(<<c>>) \o <<v>>
        \o (IF v >= 7 THEN U32LE(7) \o Zeros(4) ELSE <<>>)
        \o (IF v >= 6 THEN <<0>> ELSE <<>>)
        \o (IF v >= 5 THEN U32LE(5) \o CStr(<<101>>) ELSE <<>>)
        \o (IF v >= 4 THEN <<1>> \o U32LE(9) \o Zeros(16) ELSE <<>>)
        \o (IF v >= 3 THEN U32LE(3) \o U32LE(4) ELSE <<>>)
        \o (IF v >= 2 THEN <<15, 2, 10>> ELSE <<>>)
        \o CStr(<<98>>) \o CStr(<<116>>)
        \o (IF v <= 5 THEN <<42>> ELSE <<>>)
        \o <<1, 25, 3, 4>>
        \o (IF v <= 2 THEN <<1, 2, 3, 4>> ELSE <<>>)
        \o (IF v <= 5 THEN CStr(<<104>>) ELSE <<>>)
        \o U16LE(64) \o U16LE(128) \o <<1, 1>>

\* the entries of the given versions, with connection strings "a" and "b" in turn
RECURSIVE ServerRecords(_, _)
ServerRecords(versions, k) ==
    IF k > Len(versions) THEN <<>>
    ELSE ServerRecord(versions[k], 97 + (k % 2)) \o ServerRecords(versions, k + 1)

\* GC_LISTING packets with entries of mixed versions
MixedVersions == { <<3, 6, 2>>, <<4, 5, 1, 7>> }
MixedListing(versions) ==
    Packet(PACKET_COORDINATOR_GC_LISTING,
           U16LE(Len(versions)) \o ServerRecords(versions, 1))

\* an entry of GC_NEWGRF_LOOKUP: index, grfid, md5, name
LookupEntry(index, name) == U32LE(index) \o U32LE(7) \o Zeros(16) \o CStr(<<name>>)

Listing(serverCount, entries) ==
    Packet(PACKET_COORDINATOR_GC_LISTING, U16LE(serverCount) \o entries)

\* GC_NEWGRF_LOOKUP: cookie, count, then index, grfid, md5, name
NewGRFLookup(count, entries) ==
    Packet(PACKET_COORDINATOR_GC_NEWGRF_LOOKUP, Zeros(4) \o U16LE(count) \o entries)

\* a stream of two packets of the list flow, the first of a type the flow does
\* not know, delivered whole or cut in the header, the payload or between them
ListStream ==
    Packet(PACKET_COORDINATOR_GC_CONNECTING, CStr(<<116>>)) \o Listing(1, ServerV1(97))

\* packets and fragments sent in answer to CLIENT_LISTING
ListData ==
    Splits(ListStream, {1, 2, 4, 5, 7, Len(ListStream) - 1}) \cup
    { MixedListing(versions) : versions \in MixedVersions } \cup
    { ListStream,
      Listing(1, ServerV1(97)),
      Listing(2, ServerV1(98) \o ServerV7(97)),
      Listing(1, ServerV7With(97, <<1, 2, 3>>)),
      Listing(0, <<>>),
      Listing(1, <<97>>),
      Listing(2, ServerV1(97) \o <<98>>),
      SubSeq(Listing(1, ServerV1(97)), 1, 2),
      SubSeq(Listing(1, ServerV1(97)), 3, Len(Listing(1, ServerV1(97)))),
      Packet(PACKET_COORDINATOR_GC_LISTING, <<>>),
      Packet(PACKET_COORDINATOR_GC_LISTING, <<1>>),
      NewGRFLookup(1, U32LE(1) \o U32LE(7) \o Zeros(16) \o CStr(<<97>>)),
      NewGRFLookup(2, LookupEntry(1, 97) \o LookupEntry(3, 98)),
      NewGRFLookup(1, <<1, 0>>),
      NewGRFLookup(1, U32LE(5) \o U32LE(7) \o Zeros(16) \o <<97>>),
      Packet(PACKET_COORDINATOR_GC_NEWGRF_LOOKUP, <<>>),
      Packet(PACKET_COORDINATOR_GC_CONNECTING, <<>>),
      Packet(PACKET_COORDINATOR_GC_ERROR, <<1>> \o CStr(<<101>>)),
      BadSize(0, PACKET_COORDINATOR_GC_CONNECTING),
      BadSize(2, PACKET_COORDINATOR_GC_LISTING),
      BadSize(2, PACKET_COORDINATOR_GC_STUN_REQUEST) }

-----------------------------------------------------------------------------
(* Coordinator session: the event handlers of fetchServerList ("list") and   *)
(* resolveInviteCode ("resolve")                                             *)

\* State after the function returned its promise: createConnection called,
\* socket.setTimeout set, nothing received.
GcInit ==
    /\ gcFlow \in {"list", "resolve"}
    /\ inviteCode \in (IF gcFlow = "resolve" THEN InviteCodes ELSE {<<>>})
    /\ h_gcWritten = <<>>
    /\ h_gcStream = <<>>
    /\ gcSocket = "connecting"
    /\ gcEvents = <<>>
    /\ gcClosed = FALSE
    /\ gcTimeout = "unset"
    /\ gcBuffer = <<>>
    /\ gcServers = <<>>
    /\ newgrfLookup = <<>>
    /\ gcPromise = "pending"
    /\ gcValue = NoValue
    /\ gcUncaught = FALSE
    /\ gcSpinning = FALSE
    /\ h_gcDispatched = <<>>
    /\ h_gcChunks = 0

\* Handlers run while no exception has ended the process and the event loop
\* is not held by a loop that does not end.
GcRunning == ~gcUncaught /\ ~gcSpinning

\* resolve(value) / reject(err): only the first call settles the promise
PromiseAfter(settle) ==
    IF gcPromise # "pending" \/ settle = "none" THEN gcPromise
    ELSE IF settle = "resolve" THEN "resolved" ELSE "rejected"
ValueAfter(settle, value) ==
    IF gcPromise # "pending" \/ settle = "none" THEN gcValue ELSE value

\* clearTimeout(timeout)
TimeoutCleared == IF gcTimeout = "armed" THEN "cleared" ELSE gcTimeout

\* socket.destroy(): the first call schedules 'close'
GcEventsAfterDestroy ==
    IF gcSocket = "destroyed" THEN gcEvents ELSE Append(gcEvents, "close")

\* How each flow settles when it gives up: fetchServerList resolves with what
\* it has, resolveInviteCode rejects.
GiveUp(message) ==
    IF gcFlow = "list" THEN [settle |-> "resolve", value |-> [NoValue EXCEPT !.list = gcServers]]
    ELSE [settle |-> "reject", value |-> [NoValue EXCEPT !.message = message]]

\* socket.on('connect'): write the request, arm the response timer
GcOnConnect ==
    /\ GcRunning
    /\ gcSocket = "connecting"
    /\ gcSocket' = "open"
    /\ IF gcFlow = "resolve" /\ createConnectPacketThrows(NormalizedInviteCode(inviteCode))
         THEN \* the exception leaves the handler before socket.write and setTimeout
              /\ gcUncaught' = TRUE
              /\ UNCHANGED <<gcTimeout, h_gcWritten>>
         ELSE /\ gcTimeout' = "armed"
              /\ h_gcWritten' = IF gcFlow = "list" THEN createListingPacket
                                ELSE createConnectPacket(NormalizedInviteCode(inviteCode))
              /\ UNCHANGED gcUncaught
    /\ UNCHANGED <<gcFlow, inviteCode, h_gcStream, gcEvents, gcClosed, gcBuffer, gcServers,
                   newgrfLookup, gcPromise, gcValue, gcSpinning,
                   h_gcDispatched, h_gcChunks>>
    /\ UNCHANGED <<relayVars, gwVars, cacheVars, sdVars, sessVars>>

\* socket.on('data')
GcOnData ==
    /\ GcRunning
    /\ gcSocket \in {"open", "ended"}
    /\ h_gcChunks < MaxGcChunks
    /\ \E data \in (IF gcFlow = "list" THEN ListData ELSE ResolveData) :
        \E r \in { IF gcFlow = "list"
                     THEN ListLoop(LoopResult(gcBuffer \o data, gcServers, newgrfLookup,
                                              h_gcDispatched))
                     ELSE ResolveLoop(LoopResult(gcBuffer \o data, gcServers,
                                                 newgrfLookup, h_gcDispatched)) } :
              /\ gcBuffer' = r.buffer
              /\ gcServers' = r.servers
              /\ newgrfLookup' = r.lookup
              /\ gcTimeout' = IF r.timeoutCleared THEN TimeoutCleared ELSE gcTimeout
              /\ gcSocket' = IF r.socketOp = "destroy" THEN "destroyed"
                             ELSE IF r.socketOp = "end" THEN "ended"
                             ELSE gcSocket
              /\ gcEvents' = IF r.socketOp = "destroy" THEN GcEventsAfterDestroy ELSE gcEvents
              /\ gcPromise' = PromiseAfter(r.settle)
              /\ gcValue' = ValueAfter(r.settle, r.value)
              /\ gcUncaught' = r.threw
              /\ gcSpinning' = r.spin
              /\ h_gcDispatched' = r.dispatched
              /\ h_gcStream' = h_gcStream \o data
    /\ h_gcChunks' = h_gcChunks + 1
    /\ UNCHANGED <<gcFlow, inviteCode, h_gcWritten, gcClosed>>
    /\ UNCHANGED <<relayVars, gwVars, cacheVars, sdVars, sessVars>>

\* The timer armed in 'connect' fires: destroy the socket and give up.
GcResponseTimeout ==
    /\ GcRunning
    /\ gcTimeout = "armed"
    /\ gcTimeout' = "fired"
    /\ gcSocket' = "destroyed"
    /\ gcEvents' = GcEventsAfterDestroy
    /\ gcPromise' = PromiseAfter(GiveUp("Timeout waiting for coordinator response").settle)
    /\ gcValue' = ValueAfter(GiveUp("Timeout waiting for coordinator response").settle,
                             GiveUp("Timeout waiting for coordinator response").value)
    /\ UNCHANGED <<gcFlow, inviteCode, h_gcWritten, h_gcStream,
                   gcClosed, gcBuffer, gcServers, newgrfLookup, gcUncaught,
                   gcSpinning, h_gcDispatched, h_gcChunks>>
    /\ UNCHANGED <<relayVars, gwVars, cacheVars, sdVars, sessVars>>

\* socket.on('timeout'): the socket was idle for the time given to setTimeout
GcOnTimeout ==
    /\ GcRunning
    /\ gcSocket # "destroyed"
    /\ gcTimeout' = TimeoutCleared
    /\ gcSocket' = "destroyed"
    /\ gcEvents' = GcEventsAfterDestroy
    /\ gcPromise' = PromiseAfter(GiveUp("Connection timeout").settle)
    /\ gcValue' = ValueAfter(GiveUp("Connection timeout").settle,
                             GiveUp("Connection timeout").value)
    /\ UNCHANGED <<gcFlow, inviteCode, h_gcWritten, h_gcStream,
                   gcClosed, gcBuffer, gcServers, newgrfLookup, gcUncaught,
                   gcSpinning, h_gcDispatched, h_gcChunks>>
    /\ UNCHANGED <<relayVars, gwVars, cacheVars, sdVars, sessVars>>

\* The connection to the coordinator fails: 'error' and then 'close' are emitted.
GcFails ==
    /\ GcRunning
    /\ gcSocket # "destroyed"
    /\ gcSocket' = "destroyed"
    /\ gcEvents' = gcEvents \o <<"error", "close">>
    /\ UNCHANGED <<gcFlow, inviteCode, h_gcWritten, h_gcStream,
                   gcClosed, gcTimeout, gcBuffer, gcServers, newgrfLookup,
                   gcPromise, gcValue, gcUncaught, gcSpinning, h_gcDispatched, h_gcChunks>>
    /\ UNCHANGED <<relayVars, gwVars, cacheVars, sdVars, sessVars>>

\* The coordinator closes the connection: the socket ends, destroys itself and
\* emits 'close'.
GcPeerCloses ==
    /\ GcRunning
    /\ gcSocket \in {"open", "ended"}
    /\ gcSocket' = "destroyed"
    /\ gcEvents' = Append(gcEvents, "close")
    /\ UNCHANGED <<gcFlow, inviteCode, h_gcWritten, h_gcStream,
                   gcClosed, gcTimeout, gcBuffer, gcServers, newgrfLookup,
                   gcPromise, gcValue, gcUncaught, gcSpinning, h_gcDispatched, h_gcChunks>>
    /\ UNCHANGED <<relayVars, gwVars, cacheVars, sdVars, sessVars>>

\* socket.on('error'): clearTimeout(timeout); reject(err) in both flows
GcOnError ==
    /\ GcRunning
    /\ gcEvents # <<>>
    /\ Head(gcEvents) = "error"
    /\ gcEvents' = Tail(gcEvents)
    /\ gcTimeout' = TimeoutCleared
    /\ gcPromise' = PromiseAfter("reject")
    /\ gcValue' = ValueAfter("reject", [NoValue EXCEPT !.message = "socket error"])
    /\ UNCHANGED <<gcFlow, inviteCode, h_gcWritten, h_gcStream,
                   gcSocket, gcClosed, gcBuffer, gcServers, newgrfLookup,
                   gcUncaught, gcSpinning, h_gcDispatched, h_gcChunks>>
    /\ UNCHANGED <<relayVars, gwVars, cacheVars, sdVars, sessVars>>

\* What socket.on('close') settles with: fetchServerList calls resolve(servers),
\* resolveInviteCode only clears the timer.
CloseSettles ==
    IF gcFlow = "list" THEN "resolve" ELSE "none"

\* socket.on('close')
GcOnClose ==
    /\ GcRunning
    /\ gcEvents # <<>>
    /\ Head(gcEvents) = "close"
    /\ gcEvents' = Tail(gcEvents)
    /\ gcClosed' = TRUE
    /\ gcTimeout' = TimeoutCleared
    /\ gcPromise' = PromiseAfter(CloseSettles)
    /\ gcValue' = ValueAfter(CloseSettles, [NoValue EXCEPT !.list = gcServers])
    /\ UNCHANGED <<gcFlow, inviteCode, h_gcWritten, h_gcStream,
                   gcSocket, gcBuffer, gcServers, newgrfLookup, gcUncaught,
                   gcSpinning, h_gcDispatched, h_gcChunks>>
    /\ UNCHANGED <<relayVars, gwVars, cacheVars, sdVars, sessVars>>

GcNext ==
    \/ GcOnConnect
    \/ GcOnData
    \/ GcResponseTimeout
    \/ GcOnTimeout
    \/ GcFails
    \/ GcPeerCloses
    \/ GcOnError
    \/ GcOnClose

\* GET /resolve/<code> of the variant with /invite and /turn: 200 with
\* JSON.stringify(result) when resolveInviteCode resolved, 500 when it
\* rejected, no answer while it is pending.
ResolveResponse ==
    IF gcPromise = "resolved" THEN [status |-> 200, body |-> gcValue]
    ELSE IF gcPromise = "rejected" THEN [status |-> 500, body |-> gcValue]
    ELSE [status |-> 0, body |-> NoValue]

-----------------------------------------------------------------------------
(* Claims about the coordinator session *)

\* C11: every value resolveInviteCode resolves with, and so every 200 body of
\* GET /resolve, has type "direct" or "relay", carries a ticket exactly when
\* its type is "relay", and has a port in 1..65535.
C11_ResolutionShape ==
    (gcFlow = "resolve" /\ ResolveResponse.status = 200) =>
        /\ ResolveResponse.body.type \in {"direct", "relay"}
        /\ ResolveResponse.body.hasTicket <=> ResolveResponse.body.type = "relay"
        /\ ResolveResponse.body.port \in 1..65535

\* nothing of the session can run any more: the socket is destroyed, its
\* events are handled and no timer is armed
GcQuiescent == gcSocket = "destroyed" /\ gcEvents = <<>> /\ gcTimeout # "armed"

LastDispatched == h_gcDispatched[Len(h_gcDispatched)]

\* C12: a call of resolveInviteCode whose session is over (socket closed, no
\* timer left) has settled, so GET /resolve has answered; and it has resolved
\* only on a GC_DIRECT_CONNECT or GC_TURN_CONNECT packet.
C12_ResolveSettles ==
    gcFlow = "resolve" =>
        /\ GcQuiescent => gcPromise # "pending"
        /\ gcPromise = "resolved" =>
              /\ h_gcDispatched # <<>>
              /\ LastDispatched.type \in {PACKET_COORDINATOR_GC_DIRECT_CONNECT,
                                          PACKET_COORDINATOR_GC_TURN_CONNECT}

\* C13: in the list flow a GC_LISTING packet ends the flow exactly when its
\* serverCount field is 0, and when one has ended the flow the promise is
\* resolved with the servers accumulated from the earlier packets.
C13_EndOfListing ==
    gcFlow = "list" =>
        \A i \in 1..Len(h_gcDispatched) :
            h_gcDispatched[i].type = PACKET_COORDINATOR_GC_LISTING =>
                /\ h_gcDispatched[i].ended <=> h_gcDispatched[i].serverCount = 0
                /\ h_gcDispatched[i].ended =>
                      (gcPromise = "resolved" /\ gcValue.list = gcServers)

\* C14: fetchServerList, fed packets whose size field is at least 3, never
\* rejects and never throws; when its session is over the promise is resolved
\* with the servers accumulated.
C14_ListingDegrades ==
    (gcFlow = "list" /\ \A i \in 1..Len(h_gcDispatched) : h_gcDispatched[i].size >= 3) =>
        /\ gcPromise # "rejected"
        /\ ~gcUncaught
        /\ GcQuiescent => (gcPromise = "resolved" /\ gcValue.list = gcServers)

\* C15: neither packet loop dispatches a packet whose size field is smaller
\* than 3; a loop never runs on without end.
C15_InvalidSizeFails ==
    /\ \A i \in 1..Len(h_gcDispatched) : h_gcDispatched[i].size >= 3
    /\ ~gcSpinning

\* C20: processing a packet with size 3 (empty payload) throws no exception.
C20_EmptyPayload ==
    gcUncaught => LastDispatched.size # 3

\* the names of the indices found in the table, in the order of the indices
RECURSIVE KnownNames(_, _)
KnownNames(indices, lookup) ==
    IF indices = <<>> THEN <<>>
    ELSE (IF Head(indices) \in DOMAIN lookup THEN <<lookup[Head(indices)]>> ELSE <<>>)
            \o KnownNames(Tail(indices), lookup)

\* the record of the model's version 7 entry with connection string c
DecodedV7(c, newgrfs) ==
    [EmptyServer EXCEPT !.connection_string = <<Chr(c)>>, !.newgrfs = newgrfs,
                        !.name = <<"b">>, !.clients_on = 1, !.map_width = 64,
                        !.map_height = 64, !.landscape = "Temperate", !.dedicated = TRUE]

\* C21: a server entry of a GC_LISTING packet that gives its NewGRFs by lookup
\* index is decoded, without an exception, to a record whose newgrfs are the
\* names of the indices the table held at that moment, in order, the other
\* indices being dropped, and whose later fields are those of the entry.
C21_UnknownGrfDropped ==
    gcFlow = "list" =>
        \A i \in 1..Len(h_gcDispatched) :
            h_gcDispatched[i].type = PACKET_COORDINATOR_GC_LISTING =>
                /\ h_gcDispatched[i].payload = U16LE(1) \o ServerV7With(97, <<1, 2, 3>>)
                      => /\ h_gcDispatched[i].decoded =
                                <<DecodedV7(97, KnownNames(<<1, 2, 3>>,
                                                           h_gcDispatched[i].lookup))>>
                         /\ ~(gcUncaught /\ i = Len(h_gcDispatched))
                /\ h_gcDispatched[i].payload = U16LE(2) \o ServerV1(98) \o ServerV7(97)
                      => /\ Len(h_gcDispatched[i].decoded) = 2
                         /\ h_gcDispatched[i].decoded[2] =
                                DecodedV7(97, KnownNames(<<1>>, h_gcDispatched[i].lookup))
                         /\ ~(gcUncaught /\ i = Len(h_gcDispatched))

\* C21 witness: an entry with indices 1, 2, 3 was decoded when the table held 1
\* and 3 and not 2; its newgrfs are the two names.
C21_Witness ==
    /\ gcFlow = "list"
    /\ h_gcDispatched # <<>>
    /\ LastDispatched.payload = U16LE(1) \o ServerV7With(97, <<1, 2, 3>>)
    /\ DOMAIN LastDispatched.lookup = {1, 3}
    /\ gcServers = <<DecodedV7(97, <<<<"a">>, <<"b">>>>)>>

\* the invite code a CLIENT_CONNECT packet carries: the bytes between the
\* version byte and the terminating null byte
SentInviteCode == SubSeq(h_gcWritten, 5, Len(h_gcWritten) - 1)

\* C22: the CLIENT_CONNECT packet carries the invite code itself when the code
\* starts with "+", and "+" followed by the code otherwise; normalizing a
\* normalized code changes nothing.
C22_InviteNormalized ==
    (gcFlow = "resolve" /\ h_gcWritten # <<>>) =>
        /\ h_gcWritten[Len(h_gcWritten)] = 0
        /\ SentInviteCode =
              IF inviteCode # <<>> /\ inviteCode[1] = "+"
                THEN Utf8Bytes(inviteCode)
                ELSE <<43>> \o Utf8Bytes(inviteCode)
        /\ NormalizedInviteCode(NormalizedInviteCode(inviteCode))
              = NormalizedInviteCode(inviteCode)

\* C22 witness: a code with a "+" that is not leading was sent with the sigil
\* in front.
C22_Witness ==
    /\ gcFlow = "resolve"
    /\ inviteCode = <<"A", "+", "B">>
    /\ SentInviteCode = <<43, 65, 43, 66>>

\* what the 'data' handler does when the whole stream arrives in one event
Unsplit ==
    IF gcFlow = "list" THEN ListLoop(LoopResult(h_gcStream, <<>>, <<>>, <<>>))
    ELSE ResolveLoop(LoopResult(h_gcStream, <<>>, <<>>, <<>>))

\* the (type, payload) pairs of a record of dispatched packets
TypesAndPayloads(dispatched) ==
    [i \in 1..Len(dispatched) |->
        [type |-> dispatched[i].type, payload |-> dispatched[i].payload]]

\* the first dispatched packet whose branch ended the flow, or the last packet
FirstEnded ==
    IF \E i \in 1..Len(h_gcDispatched) : h_gcDispatched[i].ended
      THEN CHOOSE i \in 1..Len(h_gcDispatched) :
               /\ h_gcDispatched[i].ended
               /\ \A j \in 1..(i - 1) : ~h_gcDispatched[j].ended
      ELSE Len(h_gcDispatched)

\* every size field the reader found is at least 3
WellFramed(dispatched) == \A i \in 1..Len(dispatched) : dispatched[i].size >= 3

\* C27: on a stream of packets with size fields of at least 3, however it is
\* split into 'data' events, the (type, payload) packets dispatched are those of
\* the same stream delivered in one 'data' event.
C27_FramingIgnoresChunking ==
    \A u \in {Unsplit.dispatched} :
        WellFramed(u) => TypesAndPayloads(h_gcDispatched) = TypesAndPayloads(u)

\* C27, amended: the same up to and including the packet that ends the flow;
\* and while no packet has ended the flow, the bytes of an incomplete packet
\* (a header of fewer than 3 bytes included) stay in the buffer, and the servers
\* and the lookup table are those of the one-event delivery, which a packet of
\* an unknown type leaves as they were.
C27_FramingUntilFlowEnds ==
    \A u \in {Unsplit} :
        WellFramed(u.dispatched) =>
            /\ TypesAndPayloads(SubSeq(h_gcDispatched, 1, FirstEnded))
                  = TypesAndPayloads(u.dispatched)
            /\ (\A i \in 1..Len(h_gcDispatched) : ~h_gcDispatched[i].ended) =>
                  /\ gcBuffer = u.buffer
                  /\ gcServers = u.servers
                  /\ newgrfLookup = u.lookup
                  /\ (\A i \in 1..Len(h_gcDispatched) :
                          h_gcDispatched[i].type = PACKET_COORDINATOR_GC_CONNECTING) =>
                        (gcServers = <<>> /\ newgrfLookup = <<>>)
                  /\ Len(gcBuffer) < 3 \/ Len(gcBuffer) < ReadUInt16LE(gcBuffer, 0)
                        \/ gcUncaught \/ gcSpinning \/ gcPromise = "rejected"

\* the two-packet list stream arrived in two 'data' events: the packet of the
\* unknown type was skipped and the listing decoded once
C27_Witness ==
    /\ gcFlow = "list" /\ h_gcChunks = 2 /\ h_gcStream = ListStream
    /\ TypesAndPayloads(h_gcDispatched) =
          << [type |-> PACKET_COORDINATOR_GC_CONNECTING, payload |-> CStr(<<116>>)],
             [type |-> PACKET_COORDINATOR_GC_LISTING,
              payload |-> U16LE(1) \o ServerV1(97)] >>
    /\ Len(gcServers) = 1 /\ gcBuffer = <<>>

\* the packet types that end the resolve flow
TerminalTypes ==
    {PACKET_COORDINATOR_GC_ERROR, PACKET_COORDINATOR_GC_CONNECT_FAILED,
     PACKET_COORDINATOR_GC_DIRECT_CONNECT, PACKET_COORDINATOR_GC_TURN_CONNECT}

HasTerminal == \E i \in 1..Len(h_gcDispatched) : h_gcDispatched[i].type \in TerminalTypes

\* the first dispatched packet of a terminal type
FirstTerminal ==
    h_gcDispatched[CHOOSE i \in 1..Len(h_gcDispatched) :
                       /\ h_gcDispatched[i].type \in TerminalTypes
                       /\ \A j \in 1..(i - 1) : h_gcDispatched[j].type \notin TerminalTypes]

\* what the resolve flow does with one packet on its own
OutcomeOf(p) == ResolvePacket(LoopResult(Packet(p.type, p.payload), <<>>, <<>>, <<>>)).value

\* C28: in the resolve flow no packet other than GC_ERROR, GC_CONNECT_FAILED,
\* GC_DIRECT_CONNECT and GC_TURN_CONNECT ends the flow or settles the promise;
\* once one of these has been dispatched and decoded, the promise is rejected
\* (GC_ERROR with its error type and detail, GC_CONNECT_FAILED) or resolved
\* (GC_DIRECT_CONNECT as "direct", GC_TURN_CONNECT as "turn") as the first of
\* them says; and a settled promise never changes.
C28_FirstTerminalDecides ==
    /\ [](gcFlow = "resolve" =>
            /\ \A i \in 1..Len(h_gcDispatched) :
                   h_gcDispatched[i].type \notin TerminalTypes => ~h_gcDispatched[i].ended
            /\ ~HasTerminal =>
                   /\ gcPromise # "resolved"
                   /\ gcValue.message \notin {"Coordinator error", "Connection failed"}
            /\ (HasTerminal /\ ~gcUncaught) =>
                   /\ FirstTerminal.size >= 3 => gcValue = OutcomeOf(FirstTerminal)
                   /\ FirstTerminal.type = PACKET_COORDINATOR_GC_ERROR =>
                         /\ gcPromise = "rejected"
                         /\ gcValue.message = "Coordinator error"
                         /\ gcValue.errorType = ReadUInt8(FirstTerminal.payload, 0)
                         /\ gcValue.detail = readString(FirstTerminal.payload, 1)
                   /\ FirstTerminal.type = PACKET_COORDINATOR_GC_CONNECT_FAILED =>
                         gcPromise = "rejected" /\ gcValue.message = "Connection failed"
                   /\ FirstTerminal.type = PACKET_COORDINATOR_GC_DIRECT_CONNECT =>
                         gcPromise = "resolved" /\ gcValue.type = "direct"
                   /\ FirstTerminal.type = PACKET_COORDINATOR_GC_TURN_CONNECT =>
                         gcPromise = "resolved" /\ gcValue.type = "turn")
    /\ [][gcPromise # "pending" => UNCHANGED <<gcPromise, gcValue>>]_vars

\* GC_TURN_CONNECT, then GC_ERROR in a later 'data' event: the relay result stands
C28_Witness ==
    /\ gcFlow = "resolve" /\ h_gcChunks = 2
    /\ h_gcStream = TurnConnect(<<104, 58, 51, 57, 55, 57>>)
                      \o Packet(PACKET_COORDINATOR_GC_ERROR, <<1>> \o CStr(<<101>>))
    /\ gcPromise = "resolved" /\ gcValue.type = "turn" /\ gcValue.port = 3979

\* the offset after the null-terminated string at offset, or -1 when the
\* payload ends before its terminator (or before offset)
RECURSIVE AfterZString(_, _)
AfterZString(payload, offset) ==
    IF offset < 0 \/ offset >= Len(payload) THEN -1
    ELSE IF payload[offset + 1] = 0 THEN offset + 1
    ELSE AfterZString(payload, offset + 1)

\* the offset after the fixed-width field of n bytes at offset, or -1
AfterBytes(payload, offset, n) ==
    IF offset < 0 \/ offset + n > Len(payload) THEN -1 ELSE offset + n

\* the payload holds every field of its packet type:
\* GC_ERROR u8 . zstring; GC_DIRECT_CONNECT zstring . u8 . zstring . u16;
\* GC_TURN_CONNECT zstring . u8 . zstring . zstring
HoldsItsFields(p) ==
    IF p.type = PACKET_COORDINATOR_GC_ERROR
      THEN AfterZString(p.payload, AfterBytes(p.payload, 0, 1)) >= 0
    ELSE IF p.type = PACKET_COORDINATOR_GC_DIRECT_CONNECT
      THEN AfterBytes(p.payload,
               AfterZString(p.payload,
                   AfterBytes(p.payload, AfterZString(p.payload, 0), 1)), 2) >= 0
    ELSE IF p.type = PACKET_COORDINATOR_GC_TURN_CONNECT
      THEN AfterZString(p.payload,
               AfterZString(p.payload,
                   AfterBytes(p.payload, AfterZString(p.payload, 0), 1))) >= 0
    ELSE TRUE

\* C29: in the resolve flow, when the first terminal packet lacks one of its
\* fields, the promise is rejected and the socket destroyed; the handler has
\* not thrown, the promise is not resolved and not left pending.
C29_MalformedTerminalRejects ==
    (gcFlow = "resolve" /\ HasTerminal) =>
        ((FirstTerminal.size >= 3 /\ ~HoldsItsFields(FirstTerminal)) =>
            /\ ~gcUncaught
            /\ gcPromise = "rejected"
            /\ gcSocket = "destroyed")

\* the fields of a GC_DIRECT_CONNECT payload, found by byte offsets:
\* zstring token . u8 trackingNumber . zstring host . u16le port
DirectHostStart(payload) == AfterBytes(payload, AfterZString(payload, 0), 1)
DirectPortStart(payload) == AfterZString(payload, DirectHostStart(payload))
DirectHost(payload) ==
    Utf8ToString(SubSeq(payload, DirectHostStart(payload) + 1, DirectPortStart(payload) - 1))
DirectPort(payload) == ReadUInt16LE(payload, DirectPortStart(payload))

\* C30: when the first terminal packet is a GC_DIRECT_CONNECT holding all its
\* fields, the promise is resolved with the host and the port of the payload
\* and type "direct".
C30_DirectConnectDecoded ==
    (gcFlow = "resolve" /\ HasTerminal) =>
        ((/\ FirstTerminal.size >= 3
          /\ FirstTerminal.type = PACKET_COORDINATOR_GC_DIRECT_CONNECT
          /\ HoldsItsFields(FirstTerminal)) =>
            /\ ~gcUncaught
            /\ gcPromise = "resolved"
            /\ gcValue.type = "direct"
            /\ gcValue.hostname = DirectHost(FirstTerminal.payload)
            /\ gcValue.port = DirectPort(FirstTerminal.payload))

\* the record of ServerRecord(v, c): the fields the gate table gives version v
RecordOf(v, c) ==
    [connection_string |-> <<Chr(c)>>,
     ticks_playing |-> IF v >= 7 THEN 7 ELSE 0,
     gamescript_version |-> IF v >= 5 THEN 5 ELSE 0,
     gamescript_name |-> IF v >= 5 THEN <<"e">> ELSE <<>>,
     newgrfs |-> <<>>,
     calendar_date |-> IF v >= 3 THEN 3 ELSE 0,
     calendar_start |-> IF v >= 3 THEN 4 ELSE 0,
     companies_max |-> IF v >= 2 THEN 15 ELSE 0,
     companies_on |-> IF v >= 2 THEN 2 ELSE 0,
     spectators_max |-> IF v >= 2 THEN 10 ELSE 0,
     name |-> <<"b">>, version |-> <<"t">>, password |-> TRUE,
     clients_max |-> 25, clients_on |-> 3, spectators_on |-> 4,
     map_width |-> 64, map_height |-> 128, landscape |-> LANDSCAPE_NAMES[2],
     dedicated |-> TRUE]

RecordsOf(versions) ==
    [k \in 1..Len(versions) |-> RecordOf(versions[k], 97 + (k % 2))]

\* C31: a GC_LISTING packet whose entries have the versions 3, 6, 2 or
\* 4, 5, 1, 7 is decoded, without an exception, to one record per entry, each
\* with the fields the gate table gives its version, read from the entry's own
\* first byte.
C31_VersionedLayout ==
    gcFlow = "list" =>
        \A i \in 1..Len(h_gcDispatched) : \A versions \in MixedVersions :
            (/\ h_gcDispatched[i].type = PACKET_COORDINATOR_GC_LISTING
             /\ h_gcDispatched[i].payload
                    = U16LE(Len(versions)) \o ServerRecords(versions, 1)) =>
                /\ h_gcDispatched[i].decoded = RecordsOf(versions)
                /\ ~(gcUncaught /\ i = Len(h_gcDispatched))

\* both packets of mixed versions were decoded: seven records, versions 1 to 7
C31_Witness ==
    /\ gcFlow = "list" /\ Len(h_gcDispatched) = 2 /\ Len(gcServers) = 7
    /\ h_gcDispatched[1].decoded = RecordsOf(<<3, 6, 2>>)
    /\ h_gcDispatched[2].decoded = RecordsOf(<<4, 5, 1, 7>>)
    /\ gcServers = RecordsOf(<<3, 6, 2>>) \o RecordsOf(<<4, 5, 1, 7>>)

\* the offset after n NewGRF entries of storage type t that lie inside the
\* payload, terminators included, or -1
RECURSIVE WholeGrfs(_, _, _, _)
WholeGrfs(payload, offset, n, t) ==
    IF offset < 0 THEN -1
    ELSE IF n = 0 THEN offset
    ELSE CHOOSE out \in { WholeGrfs(payload, next, n - 1, t) : next \in {
             IF t = 2 THEN AfterBytes(payload, offset, 4)
             ELSE IF t = 1 THEN AfterZString(payload, AfterBytes(payload, offset, 20))
             ELSE AfterBytes(payload, offset, 20) } } : TRUE

\* the offset after field f of an entry of version v when the field, read or
\* skipped, lies inside the payload, or -1
WholeField(payload, offset, v, t, f) ==
    IF FieldAbsent(v, f) THEN offset
    ELSE IF f.kind \in {"string", "skipString"} THEN AfterZString(payload, offset)
    ELSE IF f.kind = "newgrfs"
      THEN IF offset >= Len(payload) THEN -1
           ELSE WholeGrfs(payload, offset + 1, payload[offset + 1], t)
    ELSE AfterBytes(payload, offset, f.size)

\* the offset after the entry at offset when all its fields from the k-th on
\* lie inside the payload, or -1
RECURSIVE WholeRecord(_, _, _, _, _)
WholeRecord(payload, offset, v, t, k) ==
    IF offset < 0 THEN -1
    ELSE IF k > Len(NetworkGameInfoFields) THEN offset
    ELSE CHOOSE out \in {
             WholeRecord(payload, next,
                 IF NetworkGameInfoFields[k].name = "infoVersion" /\ next >= 0
                   THEN payload[next] ELSE v,
                 IF NetworkGameInfoFields[k].name = "newgrfType" /\ next > offset
                   THEN payload[next] ELSE t,
                 k + 1) :
             next \in {WholeField(payload, offset, v, t, NetworkGameInfoFields[k])} } : TRUE

\* how many of the first n entries from offset lie inside the payload one
\* after the other
RECURSIVE WholeRecords(_, _, _)
WholeRecords(payload, offset, n) ==
    IF n = 0 THEN 0
    ELSE CHOOSE out \in { IF end < 0 THEN 0 ELSE 1 + WholeRecords(payload, end, n - 1) :
                          end \in {WholeRecord(payload, offset, 0, 0, 1)} } : TRUE

\* the records of the dispatched packets from the k-th on, one after the other
RECURSIVE DecodedFrom(_)
DecodedFrom(k) ==
    IF k > Len(h_gcDispatched) THEN <<>>
    ELSE h_gcDispatched[k].decoded \o DecodedFrom(k + 1)

\* C32: a GC_LISTING packet with serverCount > 0 yields the records of the
\* entries that lie whole inside its payload before the first that does not,
\* without an exception; the flow does not end on it, and the servers
\* accumulated are the records of all the packets.
C32_MalformedRecordSkipped ==
    gcFlow = "list" =>
        /\ \A i \in 1..Len(h_gcDispatched) :
              (/\ h_gcDispatched[i].type = PACKET_COORDINATOR_GC_LISTING
               /\ h_gcDispatched[i].size >= 3
               /\ h_gcDispatched[i].serverCount > 0) =>
                  /\ Len(h_gcDispatched[i].decoded)
                        = WholeRecords(h_gcDispatched[i].payload, 2,
                                       h_gcDispatched[i].serverCount)
                  /\ ~(gcUncaught /\ i = Len(h_gcDispatched))
                  /\ ~h_gcDispatched[i].ended
        /\ gcServers = DecodedFrom(1)

\* a null-terminated string starts at offset and the payload holds no 0 from
\* there on
Unterminated(payload, offset) == offset >= 0 /\ AfterZString(payload, offset) < 0

\* one of the zstring fields of a terminal packet of the resolve flow has no
\* terminator
HasUnterminatedField(p) ==
    IF p.type = PACKET_COORDINATOR_GC_ERROR
      THEN Unterminated(p.payload, AfterBytes(p.payload, 0, 1))
    ELSE IF p.type \in {PACKET_COORDINATOR_GC_DIRECT_CONNECT,
                        PACKET_COORDINATOR_GC_TURN_CONNECT}
      THEN \/ Unterminated(p.payload, 0)
           \/ Unterminated(p.payload, AfterBytes(p.payload, AfterZString(p.payload, 0), 1))
           \/ /\ p.type = PACKET_COORDINATOR_GC_TURN_CONNECT
              /\ Unterminated(p.payload,
                     AfterZString(p.payload,
                         AfterBytes(p.payload, AfterZString(p.payload, 0), 1)))
    ELSE FALSE

\* the indices of the first n entries from offset of a GC_NEWGRF_LOOKUP payload
\* whose name has its terminator
RECURSIVE TerminatedIndices(_, _, _)
TerminatedIndices(payload, offset, n) ==
    IF n = 0 \/ AfterBytes(payload, offset, 24) < 0 THEN {}
    ELSE CHOOSE out \in {
             IF end < 0 THEN {}
             ELSE {ReadUInt32LE(payload, offset)} \cup TerminatedIndices(payload, end, n - 1) :
             end \in {AfterZString(payload, offset + 24)} } : TRUE

\* the indices that the GC_NEWGRF_LOOKUP packets dispatched so far give a
\* terminated name
TerminatedLookupIndices ==
    UNION { IF /\ h_gcDispatched[i].type = PACKET_COORDINATOR_GC_NEWGRF_LOOKUP
               /\ CanRead(h_gcDispatched[i].payload, 4, 2)
              THEN TerminatedIndices(h_gcDispatched[i].payload, 6,
                                     ReadUInt16LE(h_gcDispatched[i].payload, 4))
              ELSE {} : i \in 1..Len(h_gcDispatched) }

\* C33: with size fields of at least 3, the lookup table holds no entry whose
\* name was read from bytes without a terminator; and when the first terminal
\* packet of the resolve flow has a zstring field without terminator, the
\* promise is not resolved and carries no string read from the payload.
C33_UnterminatedStringFails ==
    (\A i \in 1..Len(h_gcDispatched) : h_gcDispatched[i].size >= 3) =>
        /\ gcFlow = "list" => DOMAIN newgrfLookup \subseteq TerminatedLookupIndices
        /\ (gcFlow = "resolve" /\ HasTerminal) =>
              (HasUnterminatedField(FirstTerminal) =>
                  /\ gcPromise # "resolved"
                  /\ gcValue.hostname = <<>>
                  /\ gcValue.ticket = <<>>
                  /\ gcValue.detail = <<>>)

\* C34: in the list flow a dispatched GC_ERROR packet ends the flow: the
\* socket is closed and the promise resolved with the servers accumulated.
C34_ErrorEndsListing ==
    gcFlow = "list" =>
        \A i \in 1..Len(h_gcDispatched) :
            (h_gcDispatched[i].type = PACKET_COORDINATOR_GC_ERROR
                /\ h_gcDispatched[i].size >= 3) =>
                /\ h_gcDispatched[i].ended
                /\ gcSocket \in {"ended", "destroyed"}
                /\ gcPromise = "resolved"
                /\ gcValue.list = gcServers

C37_CacheTimeMonotonic == [][serverListCacheTime' >= serverListCacheTime]_vars

\* C38: once the promise of fetchServerList is settled, the servers array,
\* which is the array it resolved with, the state of the promise and its value
\* never change, whatever event comes later.
C38_ReturnedListFinal ==
    [][(gcFlow = "list" /\ gcPromise # "pending") =>
          UNCHANGED <<gcServers, gcPromise, gcValue>>]_vars

\* end of list, then a listing with one server in a later 'data' event: the
\* array resolved stays empty
C38_Witness ==
    /\ gcFlow = "list" /\ gcPromise = "resolved"
    /\ h_gcStream = Listing(0, <<>>) \o Listing(1, ServerV1(97))
    /\ h_gcChunks = 2
    /\ gcServers = <<>> /\ gcValue.list = <<>>

-----------------------------------------------------------------------------
(* One WebSocket session by /invite/<code> or /turn/<host>/<port>/<ticket> *)

PACKET_TURN_TURN_ERROR == 0
PACKET_TURN_SERCLI_CONNECT == 1
PACKET_TURN_TURN_CONNECTED == 2

\* createTurnConnectPacket(ticket), ticket given as its UTF-8 bytes
createTurnConnectPacket(ticket) ==
    U16LE(3 + 1 + Len(ticket) + 1) \o <<PACKET_TURN_SERCLI_CONNECT>>
        \o <<NETWORK_COORDINATOR_VERSION>> \o ticket \o <<0>>

\* TURN_CONNECTED with the peer's hostname "h", followed by two bytes of the game
TurnConnectedPacket == Packet(PACKET_TURN_TURN_CONNECTED, CStr(<<104>>))
TurnStream == TurnConnectedPacket \o <<9, 8>>

\* what tcpSocket 'data' delivers: the stream above whole, cut in the header or
\* cut after the packet; a packet of another type, alone or followed by the
\* start of the stream; TURN_ERROR; packets whose size field is 0 or 1
TurnData ==
    {TurnStream} \cup Splits(TurnStream, {2, 5})
        \cup { Packet(PACKET_TURN_SERCLI_CONNECT, <<>>),
               Packet(PACKET_TURN_SERCLI_CONNECT, <<>>) \o SubSeq(TurnStream, 1, 2),
               Packet(PACKET_TURN_TURN_ERROR, <<>>),
               <<0, 0, 1>>,
               <<1, 0, 2, 9>> }

\* messages of W
SessMsgs == { <<21>>, <<22>> }

\* what resolveInviteCode resolves with: result.type
ResultTypes == {"turn", "direct"}

SessInit ==
    /\ sessHandler = "none"
    /\ sessWs = "OPEN"
    /\ sessTcp = "none"
    /\ turnConnected = FALSE
    /\ turnBuffer = <<>>
    /\ turnSpinning = FALSE
    /\ h_turnStream = <<>>
    /\ h_turnSent = <<>>
    /\ h_turnWritten = <<>>
    /\ h_turnMessages = <<>>
    /\ h_turnCloses = <<>>
    /\ h_turnClosedIn = ""
    /\ h_turnChunks = 0

\* no handler runs while the packet loop spins
SessRunning == ~turnSpinning

\* the handlers that created tcpSocket and listen to ws
RelayHandlers == {"handleTurnConnection", "handleDirectConnection"}

\* ws.close(code): an OPEN WebSocket starts closing
WsAfterClose(state) == IF state = "OPEN" THEN "CLOSING" ELSE state

\* wss.on('connection') for /invite/<code>: handleInviteConnection starts and
\* awaits resolveInviteCode; no listener is attached to ws
SessInvite ==
    /\ SessRunning
    /\ sessHandler = "none"
    /\ sessHandler' = "handleInviteConnection"
    /\ UNCHANGED <<sessWs, sessTcp, turnConnected, turnBuffer, turnSpinning,
                   h_turnStream, h_turnSent, h_turnWritten, h_turnMessages,
                   h_turnCloses, h_turnClosedIn, h_turnChunks>>
    /\ UNCHANGED <<relayVars, gwVars, cacheVars, gcVars, sdVars>>

\* wss.on('connection') for /turn/<host>/<port>/<ticket>: handleTurnConnection
\* calls net.createConnection and attaches its listeners
SessTurn ==
    /\ SessRunning
    /\ sessHandler = "none"
    /\ sessHandler' = "handleTurnConnection"
    /\ sessTcp' = "connecting"
    /\ UNCHANGED <<sessWs, turnConnected, turnBuffer, turnSpinning,
                   h_turnStream, h_turnSent, h_turnWritten, h_turnMessages,
                   h_turnCloses, h_turnClosedIn, h_turnChunks>>
    /\ UNCHANGED <<relayVars, gwVars, cacheVars, gcVars, sdVars>>

\* handleInviteConnection after the await: handleTurnConnection or
\* handleDirectConnection is called, whatever ws.readyState is
SessInviteResolves ==
    /\ SessRunning
    /\ sessHandler = "handleInviteConnection"
    /\ \E type \in ResultTypes :
        sessHandler' = IF type = "turn" THEN "handleTurnConnection"
                                        ELSE "handleDirectConnection"
    /\ sessTcp' = "connecting"
    /\ UNCHANGED <<sessWs, turnConnected, turnBuffer, turnSpinning,
                   h_turnStream, h_turnSent, h_turnWritten, h_turnMessages,
                   h_turnCloses, h_turnClosedIn, h_turnChunks>>
    /\ UNCHANGED <<relayVars, gwVars, cacheVars, gcVars, sdVars>>

\* handleInviteConnection, catch: ws.close(1011, ...)
SessInviteRejects ==
    /\ SessRunning
    /\ sessHandler = "handleInviteConnection"
    /\ sessHandler' = "failed"
    /\ h_turnCloses' = Append(h_turnCloses, 1011)
    /\ sessWs' = WsAfterClose(sessWs)
    /\ UNCHANGED <<sessTcp, turnConnected, turnBuffer, turnSpinning,
                   h_turnStream, h_turnSent, h_turnWritten, h_turnMessages,
                   h_turnClosedIn, h_turnChunks>>
    /\ UNCHANGED <<relayVars, gwVars, cacheVars, gcVars, sdVars>>

\* tcpSocket.on('connect'): handleTurnConnection writes the connect packet,
\* handleDirectConnection sets connected
SessTcpOnConnect ==
    /\ SessRunning
    /\ sessTcp = "connecting"
    /\ sessTcp' = "open"
    /\ h_turnWritten' = IF sessHandler = "handleTurnConnection"
                          THEN Append(h_turnWritten, createTurnConnectPacket(<<116>>))
                          ELSE h_turnWritten
    /\ UNCHANGED <<sessHandler, sessWs, turnConnected, turnBuffer, turnSpinning,
                   h_turnStream, h_turnSent, h_turnMessages, h_turnCloses,
                   h_turnClosedIn, h_turnChunks>>
    /\ UNCHANGED <<relayVars, gwVars, cacheVars, gcVars, sdVars>>

\* handleTurnConnection, tcpSocket.on('data') while !turnConnected: the loop
\* while (buffer.length >= 3) on st.buffer; st.closes are the codes passed to
\* ws.close, st.destroy is tcpSocket.destroy(), st.sent what ws.send was given
RECURSIVE TurnLoop(_)
TurnLoop(st) ==
    IF Len(st.buffer) < 3 THEN st
    ELSE LET packetSize == ReadUInt16LE(st.buffer, 0) IN
         IF Len(st.buffer) < packetSize THEN st
         ELSE LET packetType == ReadUInt8(st.buffer, 2)
                  rest == Subarray(st.buffer, packetSize, Len(st.buffer))
              IN  IF packetType = PACKET_TURN_TURN_ERROR
                    THEN [st EXCEPT !.closes = <<1011>>, !.destroy = TRUE]
                  ELSE IF packetType = PACKET_TURN_TURN_CONNECTED
                    THEN IF Len(rest) > 0 /\ st.wsOpen
                           THEN [st EXCEPT !.connected = TRUE, !.sent = rest,
                                           !.buffer = <<>>]
                           ELSE [st EXCEPT !.connected = TRUE, !.buffer = rest]
                  ELSE IF packetSize = 0
                    THEN [st EXCEPT !.spin = TRUE]
                    ELSE TurnLoop([st EXCEPT !.buffer = rest])

\* tcpSocket.on('data') of handleTurnConnection and of handleDirectConnection
SessTcpOnData ==
    /\ SessRunning
    /\ sessTcp = "open"
    /\ h_turnChunks < MaxTurnChunks
    /\ \E data \in TurnData :
        /\ h_turnStream' = h_turnStream \o data
        /\ h_turnChunks' = h_turnChunks + 1
        /\ IF sessHandler = "handleTurnConnection" /\ ~turnConnected
             THEN \E r \in { TurnLoop([buffer |-> turnBuffer \o data, connected |-> FALSE,
                                       sent |-> <<>>, closes |-> <<>>, destroy |-> FALSE,
                                       spin |-> FALSE, wsOpen |-> sessWs = "OPEN"]) } :
                    /\ turnBuffer' = r.buffer
                    /\ turnConnected' = r.connected
                    /\ turnSpinning' = r.spin
                    /\ h_turnSent' = h_turnSent \o r.sent
                    /\ h_turnCloses' = h_turnCloses \o r.closes
                    /\ sessWs' = IF r.closes # <<>> THEN WsAfterClose(sessWs) ELSE sessWs
                    /\ sessTcp' = IF r.destroy THEN "destroyed" ELSE sessTcp
             ELSE /\ h_turnSent' = IF sessWs = "OPEN" THEN h_turnSent \o data
                                                      ELSE h_turnSent
                  /\ UNCHANGED <<turnBuffer, turnConnected, turnSpinning, h_turnCloses,
                                 sessWs, sessTcp>>
    /\ UNCHANGED <<sessHandler, h_turnWritten, h_turnMessages, h_turnClosedIn>>
    /\ UNCHANGED <<relayVars, gwVars, cacheVars, gcVars, sdVars>>

\* tcpSocket.on('error') and the 'close' that follows it: ws.close(1011, ...)
\* if ws is OPEN
SessTcpOnError ==
    /\ SessRunning
    /\ sessTcp \in {"connecting", "open"}
    /\ sessTcp' = "closed"
    /\ h_turnCloses' = IF sessWs = "OPEN" THEN Append(h_turnCloses, 1011)
                                          ELSE h_turnCloses
    /\ sessWs' = WsAfterClose(sessWs)
    /\ UNCHANGED <<sessHandler, turnConnected, turnBuffer, turnSpinning,
                   h_turnStream, h_turnSent, h_turnWritten, h_turnMessages,
                   h_turnClosedIn, h_turnChunks>>
    /\ UNCHANGED <<relayVars, gwVars, cacheVars, gcVars, sdVars>>

\* tcpSocket.on('close') when the peer ended the connection:
\* ws.close(1000, ...) if ws is OPEN
SessTcpOnClose ==
    /\ SessRunning
    /\ sessTcp = "open"
    /\ sessTcp' = "closed"
    /\ h_turnCloses' = IF sessWs = "OPEN" THEN Append(h_turnCloses, 1000)
                                          ELSE h_turnCloses
    /\ sessWs' = WsAfterClose(sessWs)
    /\ UNCHANGED <<sessHandler, turnConnected, turnBuffer, turnSpinning,
                   h_turnStream, h_turnSent, h_turnWritten, h_turnMessages,
                   h_turnClosedIn, h_turnChunks>>
    /\ UNCHANGED <<relayVars, gwVars, cacheVars, gcVars, sdVars>>

\* handleDirectConnection: let connected, set by 'connect'; tcpSocket.destroyed
\* holds after destroy() and after the peer closed
SessCanWrite ==
    /\ sessTcp = "open"
    /\ sessHandler = "handleTurnConnection" => turnConnected

\* W sends a message.  ws.on('message') of the relay handlers writes it to
\* tcpSocket or drops it; while handleInviteConnection awaits, ws has no
\* 'message' listener and the event is emitted to nobody.
SessWsOnMessage ==
    /\ SessRunning
    /\ sessWs = "OPEN"
    /\ sessHandler # "none"
    /\ Len(h_turnMessages) < MaxTurnMsgs
    /\ \E data \in SessMsgs :
        /\ h_turnMessages' = Append(h_turnMessages,
                                    [data |-> data, handler |-> sessHandler,
                                     seen |-> Len(h_turnStream),
                                     heard |-> sessHandler \in RelayHandlers])
        /\ h_turnWritten' = IF sessHandler \in RelayHandlers /\ SessCanWrite
                              THEN Append(h_turnWritten, data)
                              ELSE h_turnWritten
    /\ UNCHANGED <<sessHandler, sessWs, sessTcp, turnConnected, turnBuffer,
                   turnSpinning, h_turnStream, h_turnSent, h_turnCloses,
                   h_turnClosedIn, h_turnChunks>>
    /\ UNCHANGED <<relayVars, gwVars, cacheVars, gcVars, sdVars>>

\* ws emits 'close' (the client closed, or the closing handshake ended).
\* ws.on('close') of the relay handlers destroys tcpSocket; while
\* handleInviteConnection awaits, ws has no 'close' listener.
SessWsOnClose ==
    /\ SessRunning
    /\ sessWs \in {"OPEN", "CLOSING"}
    /\ sessHandler # "none"
    /\ sessWs' = "CLOSED"
    /\ h_turnClosedIn' = sessHandler
    /\ sessTcp' = IF sessHandler \in RelayHandlers /\ sessTcp \in {"connecting", "open"}
                    THEN "destroyed"
                    ELSE sessTcp
    /\ UNCHANGED <<sessHandler, turnConnected, turnBuffer, turnSpinning,
                   h_turnStream, h_turnSent, h_turnWritten, h_turnMessages,
                   h_turnCloses, h_turnChunks>>
    /\ UNCHANGED <<relayVars, gwVars, cacheVars, gcVars, sdVars>>

SessNext ==
    \/ SessInvite
    \/ SessTurn
    \/ SessInviteResolves
    \/ SessInviteRejects
    \/ SessTcpOnConnect
    \/ SessTcpOnData
    \/ SessTcpOnError
    \/ SessTcpOnClose
    \/ SessWsOnMessage
    \/ SessWsOnClose

\* C36: the packet loop of the TURN handshake reader, like the loops of the list
\* flow and of the resolve flow, ends for every byte sequence received: none of
\* them is ever left running without end.
C36_PacketLoopTerminates == ~turnSpinning /\ ~gcSpinning

\* The handshake as the TURN protocol frames it: the packets of stream from
\* offset pos, each as long as its size field says, up to the first TURN_ERROR
\* or TURN_CONNECTED.  kind is "error" or "connected" with end the offset after
\* that packet, "incomplete" when the stream stops before, "malformed" when a
\* size field is smaller than the header.
RECURSIVE TurnScan(_, _)
TurnScan(stream, pos) ==
    IF Len(stream) - pos < 3 THEN [kind |-> "incomplete", end |-> pos]
    ELSE LET size == stream[pos + 1] + 256 * stream[pos + 2] IN
         IF size < 3 THEN [kind |-> "malformed", end |-> pos]
         ELSE IF pos + size > Len(stream) THEN [kind |-> "incomplete", end |-> pos]
         ELSE IF stream[pos + 3] = PACKET_TURN_TURN_ERROR
           THEN [kind |-> "error", end |-> pos + size]
         ELSE IF stream[pos + 3] = PACKET_TURN_TURN_CONNECTED
           THEN [kind |-> "connected", end |-> pos + size]
         ELSE TurnScan(stream, pos + size)

\* the data of the messages of W that arrived when the stream received held
\* the whole handshake o
RECURSIVE AfterHandshake(_, _)
AfterHandshake(messages, o) ==
    IF messages = <<>> THEN <<>>
    ELSE (IF o.kind = "connected" /\ Head(messages).seen >= o.end
            THEN <<Head(messages).data>> ELSE <<>>)
         \o AfterHandshake(Tail(messages), o)

\* what a TURN session owes for the handshake o: W is sent nothing of the
\* handshake and, once it is over, the bytes that follow it in order (all of
\* them while W is open); T is written, after the connect packet, the messages
\* of W that arrived once the handshake was over and no other (all of them
\* while T is open); TURN_ERROR closes W with 1011 and destroys T
TurnRelays(o) ==
    /\ IF o.kind = "connected"
         THEN /\ StartsWith(SubSeq(h_turnStream, o.end + 1, Len(h_turnStream)), h_turnSent)
              /\ sessWs = "OPEN" =>
                    h_turnSent = SubSeq(h_turnStream, o.end + 1, Len(h_turnStream))
         ELSE h_turnSent = <<>>
    /\ \A eligible \in {AfterHandshake(h_turnMessages, o)} :
         \A written \in {IF h_turnWritten = <<>> THEN <<>> ELSE Tail(h_turnWritten)} :
            /\ StartsWith(eligible, written)
            /\ sessTcp = "open" => written = eligible
    /\ o.kind = "error" =>
         (h_turnCloses = <<1011>> /\ sessWs # "OPEN" /\ sessTcp = "destroyed")

\* C39: in a TURN session no byte of a handshake packet is sent to W; after
\* TURN_CONNECTED every byte T sends after that packet, the rest of its chunk
\* included, is sent to W in order; messages of W are written to T only after
\* TURN_CONNECTED and dropped before; TURN_ERROR closes W with 1011 and
\* destroys T.
C39_TurnRelay ==
    sessHandler = "handleTurnConnection" =>
        \A o \in {TurnScan(h_turnStream, 0)} : TurnRelays(o)

\* the same for the streams in which every size field is at least 3
C39_TurnRelayWellFramed ==
    sessHandler = "handleTurnConnection" =>
        \A o \in {TurnScan(h_turnStream, 0)} : o.kind # "malformed" => TurnRelays(o)

\* C40: when W closed while handleInviteConnection was awaiting the
\* resolution, the session has no tcpSocket that is connecting or open; and
\* every message W sent during the resolution was heard by a listener.
C40_NoLeakOnInvite ==
    /\ h_turnClosedIn = "handleInviteConnection" => sessTcp \notin {"connecting", "open"}
    /\ \A i \in 1..Len(h_turnMessages) :
         h_turnMessages[i].handler = "handleInviteConnection" => h_turnMessages[i].heard

\* the first part alone
C40_NoSocketAfterClose ==
    h_turnClosedIn = "handleInviteConnection" => sessTcp \notin {"connecting", "open"}

-----------------------------------------------------------------------------
(* Specifications *)

\* No SIGINT yet.
ShutdownInit ==
    /\ shuttingDown = FALSE
    /\ exited = FALSE

\* process.on('SIGINT'): httpServer.close(callback).  The server stops accepting
\* connections; nothing is done to the sessions that are running.
Sigint ==
    /\ ~shuttingDown
    /\ ~exited
    /\ shuttingDown' = TRUE
    /\ UNCHANGED exited
    /\ UNCHANGED <<relayVars, gwVars, cacheVars, gcVars, sessVars>>

\* The callback of httpServer.close(): net.Server emits 'close' when the server
\* is not listening and every connection it accepted has ended, the upgraded
\* connection of the session's WebSocket included; then process.exit(0).
HttpServerClosed ==
    /\ shuttingDown
    /\ ~exited
    /\ wsState = "CLOSED"
    /\ exited' = TRUE
    /\ UNCHANGED shuttingDown
    /\ UNCHANGED <<relayVars, gwVars, cacheVars, gcVars, sessVars>>

\* The steps of the process: no handler runs after process.exit.
ShutdownNext ==
    \/ ~exited /\ RelayNext
    \/ Sigint
    \/ HttpServerClosed

\* C19: once SIGINT is received, the process exits, and by then the session's
\* WebSocket is closed and its tcpSocket is destroyed.
C19_GracefulShutdown == shuttingDown ~> (exited /\ wsState = "CLOSED" /\ tcpDestroyed)

Init == RelayInit /\ GatewayInit /\ CacheInit /\ GcInit /\ ShutdownInit /\ SessInit

Next ==
    \/ RelayNext \/ GatewayNext \/ HttpNext \/ CacheNext \/ GcNext \/ SessNext
    \/ Sigint \/ HttpServerClosed

\* The whole proxy.  Its parts share no state, so each is checked under a
\* specification of its own.
Spec == Init /\ [][Next]_vars

\* One relay session.
RelayOnlyInit == Init /\ proxyVariant = "main" /\ gcFlow = "list"
SpecRelay == RelayOnlyInit /\ [][RelayNext]_vars

\* The event loop runs every emitted event's handlers, and a closing WebSocket
\* ends (the ws library arms a close timer when the close frame is sent).
SpecRelayFair ==
    /\ RelayOnlyInit
    /\ [][RelayNext]_vars
    /\ WF_vars(TcpOnError)
    /\ WF_vars(TcpOnClose)
    /\ WF_vars(WsCloseCompletes)

\* One relay session whose peers keep reading: besides the above, the
\* WebSocket's send buffer is flushed to the client and tcpSocket's write buffer
\* to the backend, which emits 'drain'.
SpecRelayFlow ==
    /\ RelayOnlyInit
    /\ [][RelayNext]_vars
    /\ WF_vars(TcpOnError)
    /\ WF_vars(TcpOnClose)
    /\ WF_vars(WsCloseCompletes)
    /\ WF_vars(WsFlushed)
    /\ WF_vars(TcpOnDrain)

\* One relay session and the shutdown of the process.  The event loop runs
\* every emitted event's handlers and the close callback of the server; whether
\* the client ever closes its WebSocket is up to the client.
SpecShutdown ==
    /\ RelayOnlyInit
    /\ [][ShutdownNext]_vars
    /\ WF_vars(~exited /\ TcpOnError)
    /\ WF_vars(~exited /\ TcpOnClose)
    /\ WF_vars(~exited /\ WsCloseCompletes)
    /\ WF_vars(HttpServerClosed)

\* The admission of WebSocket upgrades.
GatewayOnlyInit == Init /\ gcFlow = "list"
SpecGateway == GatewayOnlyInit /\ [][GatewayNext]_vars

\* The HTTP request handler, of either file.
HttpOnlyInit == Init /\ gcFlow = "list"
SpecHttp == HttpOnlyInit /\ [][HttpNext]_vars

\* GET /servers.
CacheOnlyInit == Init /\ proxyVariant = "main" /\ gcFlow = "list"
SpecCache == CacheOnlyInit /\ [][CacheNext]_vars

\* One coordinator session, of either flow.
CoordinatorOnlyInit == Init /\ proxyVariant = "main"
SpecCoordinator == CoordinatorOnlyInit /\ [][GcNext]_vars

\* One WebSocket session by /invite or /turn.
SessOnlyInit == Init /\ proxyVariant = "part_002" /\ gcFlow = "list"
SpecSession == SessOnlyInit /\ [][SessNext]_vars

=============================================================================
